---- MODULE Spec2Model ----
(***************************************************************************)
(* The scrape-and-normalize pipeline of src/src/scrape_protennisjobs.py:   *)
(* main() crawls the listing pages, fetches each detail page once,         *)
(* enriches the records through the geocode cache and the fit-score cache  *)
(* and writes the two output files.                                        *)
(*                                                                         *)
(* Python values: an Optional[str] that is None is the string NULL; an     *)
(* Optional number or coordinate that is None is the empty tuple None, and *)
(* a present one is a one-element tuple (a score, a distance in tenths of  *)
(* a mile) or a <<lat, lon>> pair.  An HTTP exchange is its status code;   *)
(* NETERR stands for a request that got no response at all (timeout,       *)
(* connection error).                                                      *)
(***************************************************************************)
EXTENDS Integers, Sequences, FiniteSets, TLC

\* ------------------------------------------------------------------ bounds

\* Listing pages fetched in one crawl (the site may paginate for ever).
MaxPageFetches == 2

\* No further run of main() starts in the process once LAST_GEOCODE_REQUEST,
\* in ticks of half a second, has passed this time.
MaxClock == 4

\* Entries (div.classified blocks with a link) on one listing page.
MaxEntries == 2

\* Lines of a description, and addresses in one place of a detail page.
MaxLines == 5
MaxAddresses == 2

\* Records in a list handed to write_csv on its own.
MaxRecords == 2

\* Lines of the description of a detail page built into a record.
MaxParagraphs == 2
MaxRefreshes == 1

\* ------------------------------------------------------------- the values

NULL == "null"
None == <<>>

CATEGORY_URL == "https://protennisjobs.com/category/tennis-professional/"
PAGE_2 == "https://protennisjobs.com/category/tennis-professional/page/2/"
PAGES == {CATEGORY_URL, PAGE_2}

JOB_1 == "https://protennisjobs.com/job/1"
JOB_2 == "https://protennisjobs.com/job/2"
URLS == {JOB_1, JOB_2}

OK == 200
FORBIDDEN == 403
SERVER_ERROR == 500
NETERR == 0
STATUSES == {OK, FORBIDDEN, SERVER_ERROR, NETERR}

\* response.raise_for_status(): 4xx and 5xx raise requests.HTTPError.
IsHttpError(status) == status >= 400

\* The entries extract_listings_from_page can build: one with every listing
\* field present, one with a title link but no text, no .job-title p and no
\* .job-date block.  The site of the model lists its first job in full and
\* its second bare, on any page, in any order, any number of times.
FullEntry(u) ==
    [url |-> u, summary |-> "Teach tennis.", listing_title |-> "Head Pro",
     listing_location |-> "Austin, TX", listing_date |-> "01 January 2025"]

BareEntry(u) ==
    [url |-> u, summary |-> NULL, listing_title |-> NULL,
     listing_location |-> NULL, listing_date |-> NULL]

LISTING_ENTRIES == {FullEntry(JOB_1), BareEntry(JOB_2)}

RECURSIVE SeqsUpTo(_, _)
SeqsUpTo(S, n) ==
    IF n = 0 THEN {<<>>}
    ELSE LET shorter == SeqsUpTo(S, n - 1)
         IN  shorter \cup {Append(s, e) : s \in {t \in shorter : Len(t) = n - 1}, e \in S}

\* What a listing page can hold: its entries in page order and its next link.
LISTING_PAGES ==
    [listings : SeqsUpTo(LISTING_ENTRIES, MaxEntries), next_url : PAGES \cup {NULL}]

\* ------------------------------------------------------------ extractors

\* re.search(r"([A-Za-z .'-]+),\s*([A-Za-z]{2,})", raw) on the location
\* texts of the model: the groups of the match, stripped.
CityStateRegex ==
    ("Austin, TX" :> [city |-> "Austin", state |-> "TX"])
        @@ ("Harrogate, TN" :> [city |-> "Harrogate", state |-> "TN"])

parse_location(raw) ==
    IF raw = NULL THEN [city |-> NULL, state |-> NULL]
    ELSE IF raw \in DOMAIN CityStateRegex THEN CityStateRegex[raw]
    ELSE [city |-> raw, state |-> NULL]

\* `a or b` on Optional[str]: None and "" are falsy.
Or(a, b) == IF a = NULL \/ a = "" THEN b ELSE a

\* The e-mail addresses of the model, and email.strip().lower() on them.
ADDRESSES == {"Coach@Club.com", "coach@club.com", "admin@club.com"}

Lower(email) == IF email = "Coach@Club.com" THEN "coach@club.com" ELSE email

\* The lower-cased addresses of the model in the order of sorted().
SORTED_ADDRESSES == <<"admin@club.com", "coach@club.com">>

\* sep.join(parts)
RECURSIVE Join(_, _)
Join(sep, parts) ==
    IF parts = <<>> THEN ""
    ELSE IF Len(parts) = 1 THEN parts[1]
    ELSE parts[1] \o sep \o Join(sep, Tail(parts))

\* The three places of a detail page that hold addresses, each as the
\* addresses re.findall (or the href of a mailto: link) yields in page order:
\* the text of the "Contact Details" alert, the mailto: links, and the
\* description followed by the text of .entry-content.
EmailSources(block, mailto, text) == [block |-> block, mailto |-> mailto, text |-> text]

\* extract_contact_emails: the addresses of the three sources, lower-cased,
\* as a set, sorted and joined; None when there is none.
extract_contact_emails(sources) ==
    LET emails == sources.block \o sources.mailto \o sources.text
        deduped == SelectSeq(SORTED_ADDRESSES,
                       LAMBDA a : \E i \in DOMAIN emails : Lower(emails[i]) = a)
    IN  IF deduped = <<>> THEN NULL ELSE Join(", ", deduped)

\* details["contact_email"] of extract_contact_details: the first address of
\* the "Contact Details" alert, lower-cased (the value of its Email label
\* when that holds an address, the text of the alert otherwise).
ContactEmail(sources) ==
    IF sources.block = <<>> THEN NULL ELSE Lower(sources.block[1])

\* ----------------------------------------------------------- the record

SECTION_FIELDS ==
    {"position_overview", "key_responsibilities", "required_qualifications",
     "preferred_certifications", "compensation_benefits", "work_schedule",
     "physical_requirements", "how_to_apply"}

CONTACT_FIELDS ==
    {"contact_emails", "contact_name", "contact_city", "contact_address", "contact_url"}

JobListing(title, location, posted, summary, sections, contact, url) ==
    [job_title |-> title,
     location |-> location,
     posted_date |-> posted,
     job_summary |-> summary,
     position_overview |-> sections.position_overview,
     suitability_score |-> None,
     key_responsibilities |-> sections.key_responsibilities,
     required_qualifications |-> sections.required_qualifications,
     preferred_certifications |-> sections.preferred_certifications,
     compensation_benefits |-> sections.compensation_benefits,
     work_schedule |-> sections.work_schedule,
     physical_requirements |-> sections.physical_requirements,
     how_to_apply |-> sections.how_to_apply,
     contact_emails |-> contact.contact_emails,
     contact_name |-> contact.contact_name,
     contact_city |-> contact.contact_city,
     contact_address |-> contact.contact_address,
     contact_url |-> contact.contact_url,
     distance_to_harrogate_tn_miles |-> None,
     source_url |-> url]

NoSections == [f \in SECTION_FIELDS |-> NULL]
NoContact == [f \in CONTACT_FIELDS |-> NULL]

\* ------------------------------------------------------------ fetch_html

\* fetch_html retrying every 403, whatever referer the request carried.
RetryEvery403(status, referer) == status = FORBIDDEN

\* The 403 of a request that did not already carry the category referer is
\* retried once with it.
ShouldRetry(status, referer) == status = FORBIDDEN /\ referer # CATEGORY_URL

\* fetch_html(url, referer) when the first request ends in status r1 and the
\* retry, if one is made, in r2: the requests issued and how the call ends.
fetch_html(url, referer, r1, r2) ==
    LET first == [url |-> url, referer |-> referer, status |-> r1]
        second == [url |-> url, referer |-> CATEGORY_URL, status |-> r2]
        retry == r1 # NETERR /\ ShouldRetry(r1, referer)
        final == IF retry THEN r2 ELSE r1
    IN  [requests |-> IF retry THEN <<first, second>> ELSE <<first>>,
         status |-> final,
         raised |-> IF final = NETERR THEN "ConnectionError"
                    ELSE IF IsHttpError(final) THEN "HTTPError"
                    ELSE "none"]

NoException == [type |-> "none", status |-> OK, where |-> "none"]
NoFetch == [requests |-> <<>>, status |-> OK, raised |-> "none"]

\* ---------------------------------------------------------- geocoding

\* part.strip().lower() on the city and state strings of the model.
StripLower ==
    ("Austin" :> "austin") @@ ("AUSTIN" :> "austin") @@ ("TX" :> "tx")
        @@ ("Harrogate" :> "harrogate") @@ ("TN" :> "tn")

location_cache_key(city, state) ==
    LET c == IF Or(city, NULL) = NULL THEN NULL ELSE StripLower[city]
        st == IF Or(state, NULL) = NULL THEN NULL ELSE StripLower[state]
    IN  IF c = NULL THEN st
        ELSE IF st = NULL THEN c
        ELSE c \o ", " \o st

HARROGATE_KEY == location_cache_key("Harrogate", "TN")
AUSTIN_KEY == location_cache_key("Austin", "TX")
GEO_KEYS == {HARROGATE_KEY, AUSTIN_KEY}

\* The first result of the geocoding service for a place, <<lat, lon>> in
\* hundredths of a degree.
GeocoderFinds == (HARROGATE_KEY :> <<3658, -8366>>) @@ (AUSTIN_KEY :> <<3027, -9774>>)

\* What a geocoding request can come to: no response, an HTTP error, an
\* empty array, an array with the place.
GEOCODE_REPLIES == {"ConnectionError", "HTTPError", "empty", "found"}

\* geocode_city_state catching requests.HTTPError only.
GeocodeCatchesHttpOnly(reply) == reply = "HTTPError"

\* `except requests.RequestException` of geocode_city_state.
GeocodeCatches(reply) == reply \in {"ConnectionError", "HTTPError"}

\* An assignment that leaves the dict with the one key.
StoreAlone(cache, key, value) == [k \in {key} |-> value]

\* `cache[key] = value`
Store(cache, key, value) == [k \in DOMAIN cache \cup {key} |->
                                IF k = key THEN value ELSE cache[k]]

\* GEOCODE_MIN_INTERVAL = 1.0 second, in ticks of half a second.
GEOCODE_MIN_INTERVAL == 2

\* The time since the latest request at which throttle_geocoding is entered:
\* none, less than the interval, the interval.  A longer wait takes the
\* branch of the last.
ELAPSED == 0..GEOCODE_MIN_INTERVAL

\* What time.time() can read when LAST_GEOCODE_REQUEST is last: the clock
\* does not run backwards, and the process starts later than
\* GEOCODE_MIN_INTERVAL after the epoch.
TimeReadings(last) ==
    {t \in {last + e : e \in ELAPSED} : t >= GEOCODE_MIN_INTERVAL}

\* throttle_geocoding without its time.sleep.
ThrottleWithoutSleep(last, now) == now

\* throttle_geocoding() entered at time now: the new LAST_GEOCODE_REQUEST,
\* read from the clock after the sleep.
throttle_geocoding(last, now) ==
    LET elapsed == now - last
    IN  IF elapsed < GEOCODE_MIN_INTERVAL
        THEN now + (GEOCODE_MIN_INTERVAL - elapsed)
        ELSE now

\* geocode_city_state(city, state, cache) entered at time now with
\* LAST_GEOCODE_REQUEST = last, when the service, if asked, answers reply:
\* the cache afterwards, the coordinates returned (None for none), the
\* network requests issued, the exception that leaves the function and
\* LAST_GEOCODE_REQUEST afterwards (the time of the request, if one is made).
geocode_city_state(city, state, cache, reply, last, now) ==
    LET key == location_cache_key(city, state)
        asked == throttle_geocoding(last, now)
        answer(c, result, n, raised) ==
            [cache |-> c, result |-> result, requests |-> n, raised |-> raised,
             key |-> key, last |-> IF n = 0 THEN last ELSE asked]
    IN  IF key = NULL THEN answer(cache, None, 0, "none")
        ELSE IF key \in DOMAIN cache /\ cache[key] # None
        THEN answer(cache, cache[key], 0, "none")
        ELSE IF key \in DOMAIN cache THEN answer(cache, None, 0, "none")
        ELSE IF reply \in {"ConnectionError", "HTTPError"}
        THEN IF GeocodeCatches(reply)
             THEN answer(cache, None, 1, "none")
             ELSE answer(cache, None, 1, reply)
        ELSE IF reply = "empty" THEN answer(Store(cache, key, None), None, 1, "none")
        ELSE answer(Store(cache, key, GeocoderFinds[key]), GeocoderFinds[key], 1, "none")

\* round(haversine_miles(a, b), 1) in tenths of a mile, on the coordinates
\* of the model.
haversine_miles(a, b) == IF a = b THEN 0 ELSE 9202

Distance(coords, harrogate) ==
    IF coords # None /\ harrogate # None
    THEN <<haversine_miles(coords, harrogate)>>
    ELSE None

\* The cache files earlier runs may have left on disk.
GEOCODE_FILES ==
    {<<>>,
     (HARROGATE_KEY :> GeocoderFinds[HARROGATE_KEY]),
     (HARROGATE_KEY :> GeocoderFinds[HARROGATE_KEY]) @@ (AUSTIN_KEY :> None)}

\* ------------------------------------------------------------ fit scoring

\* The text of a completion reply, by what parse_score_from_text finds in it:
\* no {...}, a {...} that is not JSON, an object without "score", an object
\* whose "score" is a string, an object whose "score" is the number
\* tenths / 10.
ScoreText(kind, tenths) == [kind |-> kind, tenths |-> tenths]

SCORE_TEXTS ==
    {ScoreText(k, 0) : k \in {"no_object", "invalid_json", "no_score", "string_score"}}
        \cup {ScoreText("number", t) : t \in {-35, 65, 125}}

\* Python's round(): to the nearest integer, a tie to the even one.
PyRound(tenths) ==
    LET floor == IF tenths >= 0 THEN tenths \div 10 ELSE -((9 - tenths) \div 10)
        rest == tenths - 10 * floor
    IN  IF rest < 5 THEN floor
        ELSE IF rest > 5 THEN floor + 1
        ELSE IF floor % 2 = 0 THEN floor ELSE floor + 1

Min(a, b) == IF a < b THEN a ELSE b
Max(a, b) == IF a > b THEN a ELSE b

\* parse_score_from_text rounding the score without clamping it.
ParseScoreUnclamped(text) ==
    IF text.kind = "number" THEN <<PyRound(text.tenths)>> ELSE None

parse_score_from_text(text) ==
    IF text.kind = "no_object" THEN None
    ELSE IF text.kind = "invalid_json" THEN None
    ELSE IF text.kind = "number" THEN <<Max(0, Min(10, PyRound(text.tenths)))>>
    ELSE None

\* What a scoring request can come to: no response, an HTTP error, or a
\* completion carrying a text.
SCORE_REPLIES ==
    {[raised |-> r, text |-> ScoreText("no_object", 0)] : r \in {"ConnectionError", "HTTPError"}}
        \cup {[raised |-> "none", text |-> t] : t \in SCORE_TEXTS}

\* score_jobs_with_ai catching requests.HTTPError only.
ScoreCatchesHttpOnly(raised) == raised = "HTTPError"

\* `except requests.RequestException` of score_jobs_with_ai.
ScoreCatches(raised) == raised \in {"ConnectionError", "HTTPError"}

\* fetch_openai_score under the try of score_jobs_with_ai: the score, and the
\* exception that leaves the try.
ScoreOf(reply) ==
    IF reply.raised = "none"
    THEN [score |-> parse_score_from_text(reply.text), raised |-> "none"]
    ELSE IF ScoreCatches(reply.raised) THEN [score |-> None, raised |-> "none"]
    ELSE [score |-> None, raised |-> reply.raised]

FIT_SCORE_FILES == {<<>>, (JOB_1 :> <<7>>) @@ (JOB_2 :> None)}

\* The environment variable OPENAI_API_KEY: unset (the default ""), blank, set.
BLANK == "  "
API_KEYS == {"", BLANK, "sk-key"}

\* score_jobs_with_ai testing the variable as it is, without strip().
HasUnstrippedKey(value) == value # ""

\* os.getenv("OPENAI_API_KEY", "").strip()
api_key(value) == IF value = BLANK THEN "" ELSE value

\* `if not api_key: return` fails
HasApiKey(value) == api_key(value) # ""

\* ------------------------------------------------------- the output files

NoFile == [exists |-> FALSE, rows |-> <<>>]
NoCsvFile == [exists |-> FALSE, header |-> <<>>, rows |-> <<>>]

\* A header naming the distance column as the field of the record.
FieldnamesOfRecord ==
    <<"job_title", "location_city", "location_state", "posted_date",
      "distance_to_harrogate_tn_miles", "job_summary", "position_overview",
      "suitability_score", "key_responsibilities", "required_qualifications",
      "preferred_certifications", "compensation_benefits", "work_schedule",
      "physical_requirements", "how_to_apply", "contact_emails", "contact_name",
      "contact_city", "contact_address", "contact_url", "source_url">>

\* The header of write_csv.
fieldnames ==
    <<"job_title", "location_city", "location_state", "posted_date",
      "Distance to Harrogate, TN", "job_summary", "position_overview",
      "suitability_score", "key_responsibilities", "required_qualifications",
      "preferred_certifications", "compensation_benefits", "work_schedule",
      "physical_requirements", "how_to_apply", "contact_emails", "contact_name",
      "contact_city", "contact_address", "contact_url", "source_url">>

\* A cell written by str() alone.
CsvTextStr(v) == IF v = NULL THEN "None" ELSE v

\* A cell as csv.DictWriter writes it: None as the empty string, a number by
\* str().
CsvText(v) == IF v = NULL THEN "" ELSE v
CsvScore(v) == IF v = None THEN "" ELSE ToString(v[1])
CsvMiles(v) ==
    IF v = None THEN "" ELSE ToString(v[1] \div 10) \o "." \o ToString(v[1] % 10)

\* The dict write_csv hands to writer.writerow, as the cells of the row.
CsvRow(job) ==
    ("Distance to Harrogate, TN" :> CsvMiles(job.distance_to_harrogate_tn_miles))
    @@
    [job_title |-> CsvText(job.job_title),
     location_city |-> CsvText(job.location.city),
     location_state |-> CsvText(job.location.state),
     posted_date |-> CsvText(job.posted_date),
     job_summary |-> CsvText(job.job_summary),
     position_overview |-> CsvText(job.position_overview),
     suitability_score |-> CsvScore(job.suitability_score),
     key_responsibilities |-> CsvText(job.key_responsibilities),
     required_qualifications |-> CsvText(job.required_qualifications),
     preferred_certifications |-> CsvText(job.preferred_certifications),
     compensation_benefits |-> CsvText(job.compensation_benefits),
     work_schedule |-> CsvText(job.work_schedule),
     physical_requirements |-> CsvText(job.physical_requirements),
     how_to_apply |-> CsvText(job.how_to_apply),
     contact_emails |-> CsvText(job.contact_emails),
     contact_name |-> CsvText(job.contact_name),
     contact_city |-> CsvText(job.contact_city),
     contact_address |-> CsvText(job.contact_address),
     contact_url |-> CsvText(job.contact_url),
     source_url |-> CsvText(job.source_url)]

Range(seq) == {seq[i] : i \in DOMAIN seq}

\* write_csv(path, jobs): the file it leaves, the header line and the rows.
\* DictWriter writes one cell per fieldname, the empty string for a fieldname
\* the dict does not have.
write_csv(js) ==
    [exists |-> TRUE,
     header |-> fieldnames,
     rows |-> [i \in 1..Len(js) |->
                  [name \in Range(fieldnames) |->
                      IF name \in DOMAIN CsvRow(js[i]) THEN CsvRow(js[i])[name] ELSE ""]]]

\* ------------------------------------------------------ the serving layer

\* row.get(name) on a row of csv.DictReader: the cell under the header name,
\* None for a name the header does not have.
RowGet(row, name) == IF name \in DOMAIN row THEN row[name] ELSE NULL

\* `int(score) if score else None`, ValueError giving None: the integer
\* whose str() the cell is, among the scores 0..10.
IntOfCell(cell) ==
    IF Or(cell, NULL) = NULL THEN None
    ELSE IF \E n \in 0..10 : ToString(n) = cell
    THEN <<CHOOSE n \in 0..10 : ToString(n) = cell>>
    ELSE None

\* The distances of the model.
MILES == {haversine_miles(a, b) : a, b \in {GeocoderFinds[k] : k \in GEO_KEYS}}

\* `float(distance)` under `if distance`, ValueError giving None.
FloatOfCell(cell) ==
    IF Or(cell, NULL) = NULL THEN None
    ELSE IF \E t \in MILES : CsvMiles(<<t>>) = cell
    THEN <<CHOOSE t \in MILES : CsvMiles(<<t>>) = cell>>
    ELSE None

\* extract_org_name on the summaries of the model: the text before
\* " is looking for", "" when the summary does not hold these words.
extract_org_name(job_summary) ==
    IF job_summary = "Lakeside Club is looking for a head professional."
    THEN "Lakeside Club"
    ELSE ""

\* The last but one label of the host of a URL, title-cased, on the URLs of
\* the model.
HostName(contact_url) ==
    IF contact_url = "https://club.example" THEN "Club" ELSE ""

infer_contact_name(job_summary, contact_name, contact_url) ==
    IF Or(contact_name, NULL) # NULL THEN contact_name
    ELSE IF Or(job_summary, NULL) # NULL /\ extract_org_name(job_summary) # ""
    THEN extract_org_name(job_summary)
    ELSE IF Or(contact_url, NULL) # NULL /\ HostName(contact_url) # ""
    THEN HostName(contact_url)
    ELSE ""

\* The column names load_jobs passes to row.get.
COLUMNS_READ ==
    {"job_title", "location_city", "location_state", "posted_date", "job_summary",
     "position_overview", "key_responsibilities", "required_qualifications",
     "preferred_certifications", "compensation_benefits", "work_schedule",
     "physical_requirements", "how_to_apply", "contact_emails", "contact_name",
     "contact_url", "contact_city", "contact_address", "source_url",
     "suitability_score", "Distance to Harrogate, TN"}

\* The job load_jobs builds from one row.
LoadedJob(row) ==
    [job_title |-> Or(RowGet(row, "job_title"), "Tennis Role"),
     location |-> [city |-> Or(RowGet(row, "location_city"), "Unknown City"),
                   state |-> Or(RowGet(row, "location_state"), "Unknown")],
     posted_date |-> Or(RowGet(row, "posted_date"), ""),
     distance_to_harrogate_tn_miles |->
         FloatOfCell(RowGet(row, "Distance to Harrogate, TN")),
     job_summary |-> Or(RowGet(row, "job_summary"), ""),
     position_overview |-> Or(RowGet(row, "position_overview"), ""),
     suitability_score |-> IntOfCell(RowGet(row, "suitability_score")),
     key_responsibilities |-> Or(RowGet(row, "key_responsibilities"), ""),
     required_qualifications |-> Or(RowGet(row, "required_qualifications"), ""),
     preferred_certifications |-> Or(RowGet(row, "preferred_certifications"), ""),
     compensation_benefits |-> Or(RowGet(row, "compensation_benefits"), ""),
     work_schedule |-> Or(RowGet(row, "work_schedule"), ""),
     physical_requirements |-> Or(RowGet(row, "physical_requirements"), ""),
     how_to_apply |-> Or(RowGet(row, "how_to_apply"), ""),
     contact_emails |-> Or(RowGet(row, "contact_emails"), ""),
     contact_name |-> Or(infer_contact_name(RowGet(row, "job_summary"),
                                            RowGet(row, "contact_name"),
                                            RowGet(row, "contact_url")),
                         "Unknown org"),
     contact_city |-> Or(RowGet(row, "contact_city"), ""),
     contact_address |-> Or(RowGet(row, "contact_address"), ""),
     contact_url |-> Or(RowGet(row, "contact_url"), ""),
     source_url |-> Or(RowGet(row, "source_url"), "")]

\* load_jobs() on the file at CSV_PATH: DictReader keys each line after the
\* first by the header.
load_jobs(file) == [i \in 1..Len(file.rows) |-> LoadedJob(file.rows[i])]

\* a / b rounded to the nearest integer, a tie to the even one.
RoundDiv(a, b) ==
    LET q == a \div b
        r == a % b
    IN  IF 2 * r < b THEN q
        ELSE IF 2 * r > b THEN q + 1
        ELSE IF q % 2 = 0 THEN q ELSE q + 1

RECURSIVE SumOf(_)
SumOf(seq) == IF seq = <<>> THEN 0 ELSE Head(seq)[1] + SumOf(Tail(seq))

\* f"{avg_score:.1f}" of round(sum(scores) / len(scores), 1).
AvgScore(js) ==
    LET scores == SelectSeq([i \in DOMAIN js |-> js[i].suitability_score],
                            LAMBDA v : v # None)
        tenths == RoundDiv(10 * SumOf(scores), Len(scores))
    IN  IF scores = <<>> THEN "No data"
        ELSE ToString(tenths \div 10) \o "." \o ToString(tenths % 10)

\* max(state_counts, key=state_counts.get): of the states counted most, the
\* one met first.
TopState(js) ==
    LET state(i) == Or(js[i].location.state, "Unknown")
        count(i) == Cardinality({j \in DOMAIN js : state(j) = state(i)})
    IN  IF js = <<>> THEN "Unknown"
        ELSE state(CHOOSE i \in DOMAIN js :
                       /\ \A j \in DOMAIN js : count(j) <= count(i)
                       /\ \A j \in 1..(i - 1) : count(j) < count(i))

\* datetime.strptime(value.strip(), "%d %B %Y") on the dates of the model, as
\* the day number yyyymmdd, and strftime("%b %d, %Y") on these days.  An
\* ISO date such as "2025-01-02" does not parse.
ParsedDates == ("01 January 2025" :> 20250101)
FormattedDays == (20250101 :> "Jan 01, 2025")

parse_date(value) ==
    IF value \in DOMAIN ParsedDates THEN <<ParsedDates[value]>> ELSE None

LatestDate(js) ==
    LET days == {parse_date(js[i].posted_date)[1] :
                    i \in {j \in DOMAIN js : parse_date(js[j].posted_date) # None}}
    IN  IF days = {} THEN "No data"
        ELSE FormattedDays[CHOOSE d \in days : \A e \in days : e <= d]

compute_stats(js) ==
    [total |-> Len(js),
     avgScore |-> AvgScore(js),
     topState |-> TopState(js),
     latestDate |-> LatestDate(js)]

\* ------------------------------------------------- the section classifier

\* SECTION_KEYWORDS: its keys in the order of the dict, and their keywords.
SECTION_KEYS ==
    <<"key_responsibilities", "required_qualifications", "preferred_certifications",
      "compensation_benefits", "work_schedule", "physical_requirements",
      "how_to_apply", "position_overview">>

SECTION_KEYWORDS ==
    [key_responsibilities |-> {"responsibilities", "duties", "what you will do", "role includes"},
     required_qualifications |-> {"requirements", "qualifications", "required", "experience"},
     preferred_certifications |-> {"preferred", "certification", "certifications", "uspta", "ptr"},
     compensation_benefits |-> {"compensation", "benefits", "salary", "pay"},
     work_schedule |-> {"schedule", "hours", "availability"},
     physical_requirements |-> {"physical requirement", "physical requirements", "physical"},
     how_to_apply |-> {"how to apply", "apply", "contact", "email", "phone"},
     position_overview |-> {"overview", "description", "position", "summary"}]

\* The stripped lines of the model, and for each what the classifier reads
\* off it: the keywords of SECTION_KEYWORDS that its lower-cased text
\* contains, len(line.split()) and line.endswith(":").
TEXTS ==
    ("Responsibilities:" :> [keywords |-> {"responsibilities"}, words |-> 1, colon |-> TRUE])
    @@ ("Teach lessons." :> [keywords |-> {}, words |-> 2, colon |-> FALSE])
    @@ ("Run clinics." :> [keywords |-> {}, words |-> 2, colon |-> FALSE])
    @@ ("Requirements:" :> [keywords |-> {"requirements"}, words |-> 1, colon |-> TRUE])
    @@ ("USPTA certified." :> [keywords |-> {"uspta"}, words |-> 2, colon |-> FALSE])
    @@ ("Requirements and benefits:"
            :> [keywords |-> {"requirements", "benefits"}, words |-> 3, colon |-> TRUE])
    @@ ("Two seasons of coaching experience at a club or an academy."
            :> [keywords |-> {"experience"}, words |-> 11, colon |-> FALSE])
    @@ ("" :> [keywords |-> {}, words |-> 0, colon |-> FALSE])

LINES == DOMAIN TEXTS

\* match_section_key returning the last key one of whose keywords the line
\* contains.
MatchLastKey(line) ==
    LET hits == {i \in DOMAIN SECTION_KEYS :
                    SECTION_KEYWORDS[SECTION_KEYS[i]] \cap TEXTS[line].keywords # {}}
    IN  IF hits = {} THEN NULL
        ELSE SECTION_KEYS[CHOOSE i \in hits : \A j \in hits : i >= j]

\* match_section_key: the first key of SECTION_KEYWORDS one of whose
\* keywords the line contains, NULL for none.
match_section_key(line) ==
    LET hits == {i \in DOMAIN SECTION_KEYS :
                    SECTION_KEYWORDS[SECTION_KEYS[i]] \cap TEXTS[line].keywords # {}}
    IN  IF hits = {} THEN NULL
        ELSE SECTION_KEYS[CHOOSE i \in hits : \A j \in hits : i <= j]

\* A heading only when the line ends with a colon.
IsHeaderColonOnly(key, line) == key # NULL /\ TEXTS[line].colon

\* `is_header = key and (line.endswith(":") or len(line.split()) <= 6)`
IsHeader(key, line) == key # NULL /\ (TEXTS[line].colon \/ TEXTS[line].words <= 6)

\* flush() on the locals of extract_sections_from_description; the lines of
\* the model are stripped and hold no run of white space, so
\* normalize_whitespace leaves the joined text as it is.
Flush(st) ==
    [sections |-> IF st.current_key # NULL /\ st.current_parts # <<>>
                  THEN Store(st.sections, st.current_key, Join(" ", st.current_parts))
                  ELSE st.sections,
     current_key |-> NULL,
     current_parts |-> <<>>]

\* One turn of `for line in lines`.
ScanLine(st, line) ==
    LET key == match_section_key(line)
    IN  IF line = "" THEN st
        ELSE IF IsHeader(key, line) THEN [Flush(st) EXCEPT !.current_key = key]
        ELSE IF st.current_key # NULL
        THEN [st EXCEPT !.current_parts = Append(@, line)]
        ELSE st

RECURSIVE ScanLines(_, _)
ScanLines(st, lines) ==
    IF lines = <<>> THEN st ELSE ScanLines(ScanLine(st, Head(lines)), Tail(lines))

\* The second loop: sections.setdefault(key, line) on every line and key.
FirstMentions(lines) ==
    LET mentions(key) == {i \in DOMAIN lines :
                             SECTION_KEYWORDS[key] \cap TEXTS[lines[i]].keywords # {}}
    IN  [key \in {k \in Range(SECTION_KEYS) : mentions(k) # {}} |->
            lines[CHOOSE i \in mentions(key) : \A j \in mentions(key) : i <= j]]

\* extract_sections_from_description on the stripped lines of a description:
\* the dict it returns.
extract_sections_from_description(lines) ==
    LET start == [sections |-> <<>>, current_key |-> NULL, current_parts |-> <<>>]
        sections == Flush(ScanLines(start, lines)).sections
    IN  IF DOMAIN sections # {} THEN sections ELSE FirstMentions(lines)

\* --------------------------------------------------- extract_job_details

\* extract_job_details absorbing every HTTPError, not only a 403.
AnyHttpErrorIsSoft(fetched) == fetched.raised = "HTTPError"

\* The except branch: only an HTTPError whose response is a 403 is absorbed.
IsSoftFailure(fetched) == fetched.raised = "HTTPError" /\ fetched.status = FORBIDDEN

\* The 403 branch keeping the listing's location text unparsed as the city.
DegradedRecordRawLocation(entry) ==
    JobListing(Or(entry.listing_title, "Unknown"),
               [city |-> entry.listing_location, state |-> NULL],
               entry.listing_date,
               entry.summary,
               NoSections,
               NoContact,
               entry.url)

DegradedRecord(entry) ==
    JobListing(Or(entry.listing_title, "Unknown"),
               parse_location(entry.listing_location),
               entry.listing_date,
               entry.summary,
               NoSections,
               NoContact,
               entry.url)

\* A fetched detail page, as what the extractors of extract_job_details read
\* off it: the JSON-LD strings (None for a key the script does not hold, or
\* without a script), the description as its stripped lines (<<>> for none or
\* the empty string, blank lines alone for one of white space), the labelled
\* values of the contact block and the places that hold e-mail addresses.
NoAddress == [addressLocality |-> NULL, addressRegion |-> NULL, streetAddress |-> NULL]

RichPage ==
    [ld_title |-> "Director of Tennis",
     ld_datePosted |-> "2025-01-02",
     ld_address |-> [addressLocality |-> "AUSTIN", addressRegion |-> "TX",
                     streetAddress |-> "1 Court Rd"],
     description |-> <<"Responsibilities:", "Teach lessons.", "Run clinics.">>,
     contact_details |-> [contact_name |-> "Pat Lee", contact_city |-> "Austin",
                          contact_address |-> "1 Court Rd",
                          contact_url |-> "https://club.example"],
     sources |-> EmailSources(<<>>, <<>>, <<"coach@club.com">>)]

\* No JSON-LD script and no contact block: every extractor yields None.
EmptyPage ==
    [ld_title |-> NULL,
     ld_datePosted |-> NULL,
     ld_address |-> NoAddress,
     description |-> <<>>,
     contact_details |-> [contact_name |-> NULL, contact_city |-> NULL,
                          contact_address |-> NULL, contact_url |-> NULL],
     sources |-> EmailSources(<<>>, <<>>, <<>>)]

\* A JSON-LD script whose description is white space.
BlankPage == [EmptyPage EXCEPT !.description = <<"">>]

DETAIL_PAGES == {RichPage, EmptyPage, BlankPage}

\* extract_json_ld_location on the three strings of the address.
extract_json_ld_location(address) ==
    IF Or(address.addressLocality, NULL) = NULL /\ Or(address.addressRegion, NULL) = NULL
    THEN parse_location(address.streetAddress)
    ELSE [city |-> address.addressLocality, state |-> address.addressRegion]

\* `sections = extract_sections_from_description(description) if description
\* else {}`, and sections.get(key).
SectionsOfPage(description) ==
    IF description = <<>> THEN <<>> ELSE extract_sections_from_description(description)

SectionsGet(sections, key) == IF key \in DOMAIN sections THEN sections[key] ELSE NULL

\* `[line for line in description.splitlines() if line.strip()]`
Paragraphs(description) == SelectSeq(description, LAMBDA line : line # "")

\* Lines 777-780 raise IndexError: the description is not empty, the
\* classifier found no overview and no line of the description has text, so
\* paragraphs[0] is read off an empty list.
DetailRaises(page) ==
    /\ page.description # <<>>
    /\ SectionsGet(SectionsOfPage(page.description), "position_overview") = NULL
    /\ Paragraphs(page.description) = <<>>

\* The record of lines 763-806, for a page on which they do not raise.
DetailRecord(entry, page) ==
    LET ld_location == extract_json_ld_location(page.ld_address)
        location == IF Or(ld_location.city, NULL) = NULL
                       /\ Or(entry.listing_location, NULL) # NULL
                    THEN parse_location(entry.listing_location)
                    ELSE ld_location
        sections == SectionsOfPage(page.description)
        paragraphs == Paragraphs(page.description)
        overview == IF SectionsGet(sections, "position_overview") # NULL
                    THEN sections["position_overview"]
                    ELSE IF page.description = <<>> THEN NULL
                    ELSE IF Len(paragraphs) > 1 THEN paragraphs[2]
                    ELSE paragraphs[1]
        details == page.contact_details
    IN  JobListing(Or(page.ld_title, Or(entry.listing_title, "Unknown")),
                   location,
                   Or(page.ld_datePosted, entry.listing_date),
                   entry.summary,
                   [f \in SECTION_FIELDS |->
                       IF f = "position_overview" THEN overview
                       ELSE SectionsGet(sections, f)],
                   [contact_emails |-> Or(ContactEmail(page.sources),
                                          extract_contact_emails(page.sources)),
                    contact_name |-> details.contact_name,
                    contact_city |-> details.contact_city,
                    contact_address |-> details.contact_address,
                    contact_url |-> details.contact_url],
                   entry.url)

\* ------------------------------------------------------- the state of a run

VARIABLES
    pc,              \* where main() stands
    OPENAI_API_KEY,  \* the environment variable
    geocode_file,    \* data/geocode_cache.json
    fit_score_file,  \* data/fit_score_cache.json
    json_file,       \* data/protennisjobs.json
    csv_file,        \* data/protennisjobs.csv
    written,         \* the files this run has written
    next_url,        \* scrape_all_listings: the page to fetch next, or NULL
    listings,        \* scrape_all_listings: the entries of the page still to process
    seen_urls,       \* scrape_all_listings: the detail URLs met so far
    all_jobs,        \* scrape_all_listings: the records accumulated
    jobs,            \* main: the list scrape_all_listings returned
    exc,             \* the exception that ended main(), if one did
    cache,           \* the dict of the enrichment pass that is running
    harrogate_coords,\* populate_distance_to_harrogate: the reference point
    job_index,       \* the position of `for job in jobs` in the running pass
    pages_fetched,   \* listing pages fetched so far in this crawl
    fetch_log,       \* the requests and the outcome of the latest fetch_html call
    detail_calls,    \* per detail URL, the calls of extract_job_details so far
    geo_first,       \* per cache key, the first geocode_city_state lookup made
    geo_last,        \* the latest geocode_city_state lookup
    fit_last,        \* the latest turn of the loop of score_jobs_with_ai
    LAST_GEOCODE_REQUEST, \* the module global: when throttle_geocoding last ran
    cache_io,        \* per cache file, what the pass of this run did with it
    ALL_JOBS,        \* server.py: the jobs the handlers serve
    STATS,           \* server.py: the statistics the handlers serve
    REFRESH_LOCK,    \* server.py: TRUE while the lock is held
    refresh_at,      \* per thread, where its call of refresh_dataset stands
    returned,        \* per thread, what its latest call of refresh_dataset returned, and where
    previous,        \* the dataset when the lock was last acquired
    response,        \* the payload of the latest GET
    LAST_REFRESH_TS, \* server.py: when the latest refresh loaded its data
    VECTOR_STORE_ID, \* server.py: the id of the vector store, or NULL
    VS_READY,        \* server.py: TRUE while the event is set
    setup_at,        \* per setup_vector_store thread, where it stands
    chat,            \* chat_with_data: where the latest call stands, and its payload
    arg,             \* a function called on its own: the function and its argument
    result           \* what that call returned

files == <<geocode_file, fit_score_file, json_file, csv_file, written>>
crawl_vars == <<next_url, listings, seen_urls, all_jobs, pages_fetched, fetch_log, detail_calls>>
pass_vars == <<cache, harrogate_coords, job_index>>
lookups == <<geo_first, geo_last, fit_last>>
history == <<lookups, cache_io>>

\* What main() finds and leaves behind in its process.
vector == <<LAST_REFRESH_TS, VECTOR_STORE_ID, VS_READY, setup_at, chat>>
server == <<ALL_JOBS, STATS, REFRESH_LOCK, refresh_at, returned, previous, response, vector>>
call == <<arg, result>>

\* What no step of main() and no step of the server changes.
fixed == <<OPENAI_API_KEY, call>>

outside == <<fixed, LAST_GEOCODE_REQUEST, server>>

vars == <<pc, outside, files, crawl_vars, jobs, exc, pass_vars, history>>

NoLookup ==
    [key |-> NULL, requests |-> 0, result |-> None, reply |-> "none",
     again |-> FALSE, requested_before |-> FALSE, first_result |-> None,
     at |-> 0, previous |-> 0]

GEOCODE_CACHE_FILE == "geocode_cache.json"
FIT_SCORE_CACHE_FILE == "fit_score_cache.json"
CACHE_FILES == {GEOCODE_CACHE_FILE, FIT_SCORE_CACHE_FILE}

\* Nothing done with a cache file yet: the reads and the writes of the file,
\* the lookups made in the pass and the content the pass found on disk.
NoIo == [reads |-> 0, writes |-> 0, lookups |-> 0, before |-> <<>>]

Read(io, path, content) ==
    [io EXCEPT ![path].reads = @ + 1, ![path].before = content]
Wrote(io, path) == [io EXCEPT ![path].writes = @ + 1]
LookedUp(io, path) == [io EXCEPT ![path].lookups = @ + 1]

NoScoring == [index |-> 0, requests |-> 0, failed |-> FALSE]

\* The threads that call refresh_dataset: the one of refresh_loop, and one
\* more caller of the module function.
THREADS == {"refresh_loop", "caller"}

\* The setup_vector_store threads: 0 is the one `__main__` starts, k the one
\* the k-th refresh that loads its data starts.
SETUP_THREADS == 0..MaxRefreshes

\* chat_with_data is not running and has built no payload.
NoChat == [at |-> "idle", vector_store_ids |-> <<>>]

\* The dataset: what the handlers serve and what the two output files hold.
Dataset ==
    [ALL_JOBS |-> ALL_JOBS, STATS |-> STATS, json_file |-> json_file, csv_file |-> csv_file]

NoResponse == [path |-> NULL]

\* No function is called on its own.
NoCall ==
    /\ arg = [fn |-> NULL]
    /\ result = [returned |-> FALSE]

\* What a call of refresh_dataset returned, and the line of the return.
Returned(value, line) == [value |-> value, line |-> line]
NotReturned == Returned("none", 0)

\* main() run as a script: no server.py in the process.
NoServer ==
    /\ ALL_JOBS = <<>>
    /\ STATS = compute_stats(<<>>)
    /\ REFRESH_LOCK = FALSE
    /\ refresh_at = [t \in THREADS |-> "idle"]
    /\ returned = [t \in THREADS |-> NotReturned]
    /\ previous = Dataset
    /\ response = NoResponse
    /\ LAST_REFRESH_TS = None
    /\ VECTOR_STORE_ID = NULL
    /\ VS_READY = FALSE
    /\ setup_at = [k \in SETUP_THREADS |-> "idle"]
    /\ chat = NoChat

Init ==
    /\ pc = "start"
    /\ OPENAI_API_KEY \in API_KEYS
    /\ geocode_file \in GEOCODE_FILES
    /\ fit_score_file \in FIT_SCORE_FILES
    /\ json_file = NoFile
    /\ csv_file = NoCsvFile
    /\ written = {}
    /\ next_url = NULL
    /\ listings = <<>>
    /\ seen_urls = {}
    /\ all_jobs = <<>>
    /\ jobs = <<>>
    /\ exc = NoException
    /\ cache = <<>>
    /\ harrogate_coords = None
    /\ job_index = 0
    /\ pages_fetched = 0
    /\ fetch_log = NoFetch
    /\ detail_calls = [u \in URLS |-> 0]
    /\ geo_first = <<>>
    /\ geo_last = NoLookup
    /\ fit_last = NoScoring
    /\ LAST_GEOCODE_REQUEST = 0
    /\ cache_io = [path \in CACHE_FILES |-> NoIo]
    /\ NoServer
    /\ NoCall

\* --------------------------------------------------- scrape_all_listings

\* The pages the site may serve for the next listing fetch: the crawl of the
\* model ends after MaxPageFetches pages.
PagesServed ==
    {p \in LISTING_PAGES : pages_fetched + 1 < MaxPageFetches \/ p.next_url = NULL}

\* scrape_all_listings without its seen_urls test.
NeverSeen(job_url, seen) == FALSE

\* `job_url in seen_urls`
AlreadySeen(job_url, seen) == job_url \in seen

\* An exception leaves main().
Raise(type, status, where) ==
    /\ pc' = "aborted"
    /\ exc' = [type |-> type, status |-> status, where |-> where]

\* main() with score_jobs_with_ai called before populate_distance_to_harrogate.
ScoreBeforeDistance(phase) ==
    CASE phase = "crawl" -> "score"
      [] phase \in {"score", "score_jobs"} -> "geocode"
      [] phase = "geocode_jobs" -> "write_json"
      [] phase = "write_json" -> "write_csv"
      [] phase = "write_csv" -> "done"

\* The order of the calls of main(): what follows the call that returns.
NextPhase(phase) ==
    CASE phase = "crawl" -> "geocode"
      [] phase = "geocode_jobs" -> "score"
      [] phase \in {"score", "score_jobs"} -> "write_json"
      [] phase = "write_json" -> "write_csv"
      [] phase = "write_csv" -> "done"

\* main(): load_cookies() and the first statements of scrape_all_listings.
StartMain ==
    /\ pc = "start"
    /\ pc' = "crawl"
    /\ next_url' = CATEGORY_URL
    /\ all_jobs' = <<>>
    /\ seen_urls' = {}
    /\ UNCHANGED <<outside, files, listings, pages_fetched, fetch_log,
                   detail_calls, jobs, exc, pass_vars, history>>

\* One turn of `while next_url`: extract_listings_from_page(next_url).
FetchListingPage ==
    /\ pc = "crawl"
    /\ next_url # NULL
    /\ \E r1 \in STATUSES, r2 \in STATUSES, page \in PagesServed :
          LET fetched == fetch_html(next_url, NULL, r1, r2)
          IN  /\ fetch_log' = fetched
              /\ pages_fetched' = pages_fetched + 1
              /\ IF fetched.raised # "none"
                 THEN /\ Raise(fetched.raised, fetched.status, "listing")
                      /\ UNCHANGED <<next_url, listings>>
                 ELSE /\ listings' = page.listings
                      /\ next_url' = page.next_url
                      /\ pc' = "listing"
                      /\ UNCHANGED exc
    /\ UNCHANGED <<outside, files, seen_urls, all_jobs, detail_calls, jobs,
                   pass_vars, history>>

\* `if job_url in seen_urls: continue`
SkipSeenListing ==
    /\ pc = "listing"
    /\ listings # <<>>
    /\ AlreadySeen(Head(listings).url, seen_urls)
    /\ listings' = Tail(listings)
    /\ UNCHANGED <<pc, outside, files, next_url, seen_urls, all_jobs,
                   pages_fetched, fetch_log, detail_calls, jobs, exc, pass_vars, history>>

\* A new detail URL: seen_urls.add, extract_job_details, all_jobs.append.
ExtractJobDetails ==
    /\ pc = "listing"
    /\ listings # <<>>
    /\ ~AlreadySeen(Head(listings).url, seen_urls)
    /\ LET entry == Head(listings)
       IN  /\ seen_urls' = seen_urls \cup {entry.url}
           /\ detail_calls' = [detail_calls EXCEPT ![entry.url] = @ + 1]
           /\ \E r1 \in STATUSES, r2 \in STATUSES, page \in DETAIL_PAGES :
                 LET fetched == fetch_html(entry.url, CATEGORY_URL, r1, r2)
                 IN  /\ fetch_log' = fetched
                     /\ IF fetched.raised = "none" /\ DetailRaises(page)
                        THEN /\ Raise("IndexError", fetched.status, "detail")
                             /\ UNCHANGED <<all_jobs, listings>>
                        ELSE IF fetched.raised = "none"
                        THEN /\ all_jobs' = Append(all_jobs, DetailRecord(entry, page))
                             /\ listings' = Tail(listings)
                             /\ UNCHANGED <<pc, exc>>
                        ELSE IF IsSoftFailure(fetched)
                        THEN /\ all_jobs' = Append(all_jobs, DegradedRecord(entry))
                             /\ listings' = Tail(listings)
                             /\ UNCHANGED <<pc, exc>>
                        ELSE /\ Raise(fetched.raised, fetched.status, "detail")
                             /\ UNCHANGED <<all_jobs, listings>>
    /\ UNCHANGED <<outside, files, next_url, pages_fetched, jobs, pass_vars, history>>

\* The for loop over the page's entries is done: back to `while next_url`.
EndOfPage ==
    /\ pc = "listing"
    /\ listings = <<>>
    /\ pc' = "crawl"
    /\ UNCHANGED <<outside, files, crawl_vars, jobs, exc, pass_vars, history>>

\* `return all_jobs` and main's `jobs = scrape_all_listings()`: the locals of
\* the crawl are gone.
ReturnAllJobs ==
    /\ pc = "crawl"
    /\ next_url = NULL
    /\ jobs' = all_jobs
    /\ all_jobs' = <<>>
    /\ seen_urls' = {}
    /\ pages_fetched' = 0
    /\ pc' = NextPhase(pc)
    /\ UNCHANGED <<outside, files, next_url, listings, fetch_log, detail_calls,
                   exc, pass_vars, history>>

\* ---------------------------------------- populate_distance_to_harrogate

\* The history of a lookup: whether its key was looked up before, with what
\* result, and whether a request for the key had already completed.
Lookup(looked, reply) ==
    LET before == looked.key \in DOMAIN geo_first
    IN  [at |-> IF looked.requests = 0 THEN 0 ELSE looked.last,
         previous |-> IF looked.requests = 0 THEN 0 ELSE LAST_GEOCODE_REQUEST,
         key |-> looked.key,
         requests |-> looked.requests,
         result |-> looked.result,
         reply |-> IF looked.requests = 0 THEN "none" ELSE reply,
         again |-> before,
         requested_before |-> before /\ geo_first[looked.key].requested,
         first_result |-> IF before THEN geo_first[looked.key].result ELSE None]

Remember(looked) ==
    IF looked.key = NULL THEN geo_first
    ELSE IF looked.key \in DOMAIN geo_first
    THEN [geo_first EXCEPT ![looked.key].requested = @ \/ looked.requests > 0]
    ELSE Store(geo_first, looked.key,
               [result |-> looked.result, requested |-> looked.requests > 0])

\* `for job in jobs` leaving its body after one job at most.
LoopDoneAfterFirst(index, js) == index > Min(1, Len(js))

\* `for job in jobs` is exhausted: index is the position of the next job.
LoopDone(index, js) == index > Len(js)

\* `cache = load_geocode_cache()`
LoadGeocodeCache ==
    /\ pc = "geocode"
    /\ cache' = geocode_file
    /\ cache_io' = Read(cache_io, GEOCODE_CACHE_FILE, geocode_file)
    /\ pc' = "geocode_harrogate"
    /\ UNCHANGED <<outside, files, crawl_vars, jobs, exc, harrogate_coords,
                   job_index, lookups>>

\* `harrogate_coords = geocode_city_state("Harrogate", "TN", cache)`
GeocodeHarrogate ==
    /\ pc = "geocode_harrogate"
    /\ \E reply \in GEOCODE_REPLIES, now \in TimeReadings(LAST_GEOCODE_REQUEST) :
          LET looked == geocode_city_state("Harrogate", "TN", cache, reply,
                                           LAST_GEOCODE_REQUEST, now)
          IN  /\ geo_last' = Lookup(looked, reply)
              /\ LAST_GEOCODE_REQUEST' = looked.last
              /\ cache_io' = LookedUp(cache_io, GEOCODE_CACHE_FILE)
              /\ geo_first' = Remember(looked)
              /\ cache' = looked.cache
              /\ IF looked.raised # "none"
                 THEN /\ Raise(looked.raised, OK, "geocode")
                      /\ UNCHANGED <<harrogate_coords, job_index>>
                 ELSE /\ harrogate_coords' = looked.result
                      /\ job_index' = 1
                      /\ pc' = "geocode_jobs"
                      /\ UNCHANGED exc
    /\ UNCHANGED <<fixed, server, files, crawl_vars, jobs, fit_last>>

\* One turn of `for job in jobs`: the lookup and the distance.
GeocodeJob ==
    /\ pc = "geocode_jobs"
    /\ ~LoopDone(job_index, jobs)
    /\ \E reply \in GEOCODE_REPLIES, now \in TimeReadings(LAST_GEOCODE_REQUEST) :
          LET job == jobs[job_index]
              looked == geocode_city_state(job.location.city, job.location.state,
                                           cache, reply, LAST_GEOCODE_REQUEST, now)
          IN  /\ geo_last' = Lookup(looked, reply)
              /\ LAST_GEOCODE_REQUEST' = looked.last
              /\ cache_io' = LookedUp(cache_io, GEOCODE_CACHE_FILE)
              /\ geo_first' = Remember(looked)
              /\ cache' = looked.cache
              /\ IF looked.raised # "none"
                 THEN /\ Raise(looked.raised, OK, "geocode")
                      /\ UNCHANGED <<jobs, job_index>>
                 ELSE /\ jobs' = [jobs EXCEPT
                             ![job_index].distance_to_harrogate_tn_miles =
                                 Distance(looked.result, harrogate_coords)]
                      /\ job_index' = job_index + 1
                      /\ UNCHANGED <<pc, exc>>
    /\ UNCHANGED <<fixed, server, files, crawl_vars, harrogate_coords, fit_last>>

\* `save_geocode_cache(cache)`, and the pass returns.
SaveGeocodeCache ==
    /\ pc = "geocode_jobs"
    /\ LoopDone(job_index, jobs)
    /\ geocode_file' = cache
    /\ written' = written \cup {GEOCODE_CACHE_FILE}
    /\ cache_io' = Wrote(cache_io, GEOCODE_CACHE_FILE)
    /\ cache' = <<>>
    /\ harrogate_coords' = None
    /\ job_index' = 0
    /\ pc' = NextPhase(pc)
    /\ UNCHANGED <<outside, fit_score_file, json_file, csv_file, crawl_vars,
                   jobs, exc, lookups>>

\* ----------------------------------------------------- score_jobs_with_ai

\* `if not api_key: return`
SkipScoring ==
    /\ pc = "score"
    /\ ~HasApiKey(OPENAI_API_KEY)
    /\ pc' = NextPhase(pc)
    /\ UNCHANGED <<outside, files, crawl_vars, jobs, exc, pass_vars, history>>

\* `cache = load_fit_score_cache()`
LoadFitScoreCache ==
    /\ pc = "score"
    /\ HasApiKey(OPENAI_API_KEY)
    /\ cache' = fit_score_file
    /\ cache_io' = Read(cache_io, FIT_SCORE_CACHE_FILE, fit_score_file)
    /\ job_index' = 1
    /\ pc' = "score_jobs"
    /\ UNCHANGED <<outside, files, crawl_vars, jobs, exc, harrogate_coords, lookups>>

\* One turn of `for job in jobs` on a cached URL.
ScoreFromCache ==
    /\ pc = "score_jobs"
    /\ ~LoopDone(job_index, jobs)
    /\ jobs[job_index].source_url \in DOMAIN cache
    /\ jobs' = [jobs EXCEPT ![job_index].suitability_score =
                                cache[jobs[job_index].source_url]]
    /\ fit_last' = [index |-> job_index, requests |-> 0, failed |-> FALSE]
    /\ cache_io' = LookedUp(cache_io, FIT_SCORE_CACHE_FILE)
    /\ job_index' = job_index + 1
    /\ UNCHANGED <<pc, outside, files, crawl_vars, exc, cache, harrogate_coords,
                   geo_first, geo_last>>

\* One turn of `for job in jobs` on a URL the cache does not hold: the request.
ScoreJob ==
    /\ pc = "score_jobs"
    /\ ~LoopDone(job_index, jobs)
    /\ jobs[job_index].source_url \notin DOMAIN cache
    /\ cache_io' = LookedUp(cache_io, FIT_SCORE_CACHE_FILE)
    /\ \E reply \in SCORE_REPLIES :
          LET scored == ScoreOf(reply)
          IN  /\ fit_last' = [index |-> job_index, requests |-> 1,
                              failed |-> reply.raised # "none"
                                         \/ reply.text.kind # "number"]
              /\ IF scored.raised # "none"
                 THEN /\ Raise(scored.raised, OK, "score")
                      /\ UNCHANGED <<jobs, cache, job_index>>
                 ELSE /\ jobs' = [jobs EXCEPT ![job_index].suitability_score = scored.score]
                      /\ cache' = Store(cache, jobs[job_index].source_url, scored.score)
                      /\ job_index' = job_index + 1
                      /\ UNCHANGED <<pc, exc>>
    /\ UNCHANGED <<outside, files, crawl_vars, harrogate_coords, geo_first, geo_last>>

\* `save_fit_score_cache(cache)`, and the pass returns.
SaveFitScoreCache ==
    /\ pc = "score_jobs"
    /\ LoopDone(job_index, jobs)
    /\ fit_score_file' = cache
    /\ written' = written \cup {FIT_SCORE_CACHE_FILE}
    /\ cache_io' = Wrote(cache_io, FIT_SCORE_CACHE_FILE)
    /\ cache' = <<>>
    /\ job_index' = 0
    /\ pc' = NextPhase(pc)
    /\ UNCHANGED <<outside, geocode_file, json_file, csv_file, crawl_vars, jobs,
                   exc, harrogate_coords, lookups>>

\* ------------------------------------------------------------- the output

\* json.dump([asdict(job) for job in jobs], handle)
WriteJson ==
    /\ pc = "write_json"
    /\ json_file' = [exists |-> TRUE, rows |-> jobs]
    /\ written' = written \cup {"protennisjobs.json"}
    /\ pc' = NextPhase(pc)
    /\ UNCHANGED <<outside, geocode_file, fit_score_file, csv_file, crawl_vars,
                   jobs, exc, pass_vars, history>>

\* write_csv(csv_path, jobs), and main() returns.
WriteCsv ==
    /\ pc = "write_csv"
    /\ csv_file' = write_csv(jobs)
    /\ written' = written \cup {"protennisjobs.csv"}
    /\ pc' = NextPhase(pc)
    /\ UNCHANGED <<outside, geocode_file, fit_score_file, json_file, crawl_vars,
                   jobs, exc, pass_vars, history>>

Next ==
    \/ StartMain
    \/ FetchListingPage
    \/ SkipSeenListing
    \/ ExtractJobDetails
    \/ EndOfPage
    \/ ReturnAllJobs
    \/ LoadGeocodeCache
    \/ GeocodeHarrogate
    \/ GeocodeJob
    \/ SaveGeocodeCache
    \/ SkipScoring
    \/ LoadFitScoreCache
    \/ ScoreFromCache
    \/ ScoreJob
    \/ SaveFitScoreCache
    \/ WriteJson
    \/ WriteCsv

Spec == Init /\ [][Next]_vars

\* ------------------------------------------- the enrichment, run after run

\* No two records of a list share their source_url.
UniqueUrls(records) ==
    \A i, j \in DOMAIN records :
        i # j => records[i].source_url # records[j].source_url

\* What scrape_all_listings hands to the enrichment: the records of the two
\* jobs of the model, each at most once, in any order.
CRAWLED_RECORDS == {DetailRecord(FullEntry(JOB_1), RichPage), DegradedRecord(BareEntry(JOB_2))}

CRAWLED_JOBS == {js \in SeqsUpTo(CRAWLED_RECORDS, 2) : UniqueUrls(js)}

\* A first run on a machine without cache files: main() has crawled and
\* stands before populate_distance_to_harrogate.
PassesInit ==
    /\ pc = "geocode"
    /\ OPENAI_API_KEY \in API_KEYS
    /\ geocode_file = <<>>
    /\ fit_score_file = <<>>
    /\ json_file = NoFile
    /\ csv_file = NoCsvFile
    /\ written = {}
    /\ next_url = NULL
    /\ listings = <<>>
    /\ seen_urls = {}
    /\ all_jobs = <<>>
    /\ jobs \in CRAWLED_JOBS
    /\ exc = NoException
    /\ cache = <<>>
    /\ harrogate_coords = None
    /\ job_index = 0
    /\ pages_fetched = 0
    /\ fetch_log = NoFetch
    /\ detail_calls = [u \in URLS |-> 0]
    /\ geo_first = <<>>
    /\ geo_last = NoLookup
    /\ fit_last = NoScoring
    /\ LAST_GEOCODE_REQUEST = 0
    /\ cache_io = [path \in CACHE_FILES |-> NoIo]
    /\ NoServer
    /\ NoCall

\* An enrichment pass is cut short between its load and its save: a signal,
\* or an exception that the pass does not catch, ends main().
Interrupt ==
    /\ pc \in {"geocode_harrogate", "geocode_jobs", "score_jobs"}
    /\ Raise("KeyboardInterrupt", OK, IF pc = "score_jobs" THEN "score" ELSE "geocode")
    /\ cache' = <<>>
    /\ harrogate_coords' = None
    /\ job_index' = 0
    /\ UNCHANGED <<outside, files, crawl_vars, jobs, history>>

\* The next refresh of the same process: main() runs again and comes to the
\* enrichment with the records of a new crawl.
NextRun ==
    /\ pc \in {"write_json", "aborted"}
    /\ LAST_GEOCODE_REQUEST <= MaxClock
    /\ jobs' \in CRAWLED_JOBS
    /\ pc' = "geocode"
    /\ exc' = NoException
    /\ written' = {}
    /\ cache' = <<>>
    /\ harrogate_coords' = None
    /\ job_index' = 0
    /\ geo_first' = <<>>
    /\ geo_last' = NoLookup
    /\ fit_last' = NoScoring
    /\ cache_io' = [path \in CACHE_FILES |-> NoIo]
    /\ UNCHANGED <<outside, geocode_file, fit_score_file, json_file, csv_file, crawl_vars>>

PassesNext ==
    \/ LoadGeocodeCache
    \/ GeocodeHarrogate
    \/ GeocodeJob
    \/ SaveGeocodeCache
    \/ SkipScoring
    \/ LoadFitScoreCache
    \/ ScoreFromCache
    \/ ScoreJob
    \/ SaveFitScoreCache
    \/ Interrupt
    \/ NextRun

PassesSpec == PassesInit /\ [][PassesNext]_vars

\* ------------------------------------------------- server.py: the refresh

\* The records of a crawl after the enrichment: the distance and the score
\* of the Austin job found, or neither.
Enriched(job) ==
    IF job.location.city = NULL THEN {job}
    ELSE {job, [job EXCEPT !.distance_to_harrogate_tn_miles = <<haversine_miles(
                                   GeocoderFinds[AUSTIN_KEY], GeocoderFinds[HARROGATE_KEY])>>,
                           !.suitability_score = <<7>>]}

\* The lists main() can hold at line 927.
ENRICHED_JOBS ==
    {js \in SeqsUpTo(UNION {Enriched(job) : job \in CRAWLED_RECORDS}, 2) : UniqueUrls(js)}

\* The server has been started on the files of an earlier run of main():
\* lines 191 and 221 of server.py have loaded them, `__main__` has started its
\* setup_vector_store thread, no refresh is running.
ServerInit ==
    /\ pc = "start"
    /\ OPENAI_API_KEY = "sk-key"
    /\ geocode_file = <<>>
    /\ fit_score_file = <<>>
    /\ \E js \in ENRICHED_JOBS :
          /\ json_file = [exists |-> TRUE, rows |-> js]
          /\ csv_file = write_csv(js)
    /\ written = {}
    /\ next_url = NULL
    /\ listings = <<>>
    /\ seen_urls = {}
    /\ all_jobs = <<>>
    /\ jobs = <<>>
    /\ exc = NoException
    /\ cache = <<>>
    /\ harrogate_coords = None
    /\ job_index = 0
    /\ pages_fetched = 0
    /\ fetch_log = NoFetch
    /\ detail_calls = [u \in URLS |-> 0]
    /\ geo_first = <<>>
    /\ geo_last = NoLookup
    /\ fit_last = NoScoring
    /\ LAST_GEOCODE_REQUEST = 0
    /\ cache_io = [path \in CACHE_FILES |-> NoIo]
    /\ ALL_JOBS = load_jobs(csv_file)
    /\ STATS = compute_stats(ALL_JOBS)
    /\ REFRESH_LOCK = FALSE
    /\ refresh_at = [t \in THREADS |-> "idle"]
    /\ returned = [t \in THREADS |-> NotReturned]
    /\ previous = Dataset
    /\ response = NoResponse
    /\ LAST_REFRESH_TS = None
    /\ VECTOR_STORE_ID = NULL
    /\ VS_READY = FALSE
    /\ setup_at = [k \in SETUP_THREADS |-> IF k = 0 THEN "running" ELSE "idle"]
    /\ chat = NoChat
    /\ NoCall

\* The refreshes that have loaded their data so far.
Refreshes == IF LAST_REFRESH_TS = None THEN 0 ELSE LAST_REFRESH_TS[1]

\* REFRESH_LOCK.acquire(blocking=False) succeeding whatever the lock.
AcquireAlways(lock) == TRUE

\* REFRESH_LOCK.acquire(blocking=False): TRUE when it takes the lock.
Acquire(lock) == ~lock

\* refresh_dataset without `finally`: the lock is released on `return True`.
ReleasedOnReturnOnly(exit) == exit = "return"

\* `finally: REFRESH_LOCK.release()` runs on every exit past the lock, the
\* `return True` and the `return False` of `except Exception`.
ReleasedOn(exit) == exit \in {"return", "except"}

\* load_jobs() swallowing its error and returning the rows read so far: none.
LoadedDespiteError(served) == <<>>

\* `ALL_JOBS = load_jobs()` when load_jobs() raises: nothing is assigned.
AfterFailedLoad(served) == served

\* refresh_dataset() is called on thread t: it takes the lock and goes on to
\* scraper.main(), or returns False at once.
CallRefresh(t) ==
    /\ refresh_at[t] = "idle"
    /\ Refreshes < MaxRefreshes
    /\ IF Acquire(REFRESH_LOCK)
       THEN /\ REFRESH_LOCK' = TRUE
            /\ refresh_at' = [refresh_at EXCEPT ![t] = "main"]
            /\ returned' = [returned EXCEPT ![t] = NotReturned]
            /\ previous' = Dataset
       ELSE /\ returned' = [returned EXCEPT ![t] = Returned("False", 620)]
            /\ UNCHANGED <<REFRESH_LOCK, refresh_at, previous>>
    /\ UNCHANGED <<pc, fixed, LAST_GEOCODE_REQUEST, ALL_JOBS, STATS, response, vector,
                   files, crawl_vars, jobs, exc, pass_vars, history>>

\* scraper.main() up to line 927, by its result: the crawl and the two
\* passes end in a list of records or in an exception.  The cache files are
\* not followed here.
ScrapeAndEnrich(t) ==
    /\ refresh_at[t] = "main"
    /\ pc = "start"
    /\ \/ /\ jobs' \in ENRICHED_JOBS
          /\ pc' = "write_json"
          /\ UNCHANGED exc
       \/ /\ Raise("HTTPError", SERVER_ERROR, "listing")
          /\ UNCHANGED jobs
    /\ UNCHANGED <<outside, files, crawl_vars, pass_vars, history>>

\* scraper.main() has returned: the next statement is `ALL_JOBS = load_jobs()`.
MainReturns(t) ==
    /\ refresh_at[t] = "main"
    /\ pc = "done"
    /\ pc' = "start"
    /\ written' = {}
    /\ refresh_at' = [refresh_at EXCEPT ![t] = "load_jobs"]
    /\ UNCHANGED <<fixed, LAST_GEOCODE_REQUEST, ALL_JOBS, STATS, REFRESH_LOCK,
                   returned, previous, response, vector, geocode_file, fit_score_file,
                   json_file, csv_file, crawl_vars, jobs, exc, pass_vars, history>>

\* `except Exception` and `finally`: the refresh failed, the lock is released.
RefreshFails(t) ==
    /\ refresh_at[t] = "main"
    /\ pc = "aborted"
    /\ pc' = "start"
    /\ exc' = NoException
    /\ returned' = [returned EXCEPT ![t] = Returned("False", 637)]
    /\ REFRESH_LOCK' = (REFRESH_LOCK /\ ~ReleasedOn("except"))
    /\ refresh_at' = [refresh_at EXCEPT ![t] = "idle"]
    /\ UNCHANGED <<fixed, LAST_GEOCODE_REQUEST, ALL_JOBS, STATS, previous,
                   response, vector, files, crawl_vars, jobs, pass_vars, history>>

\* `ALL_JOBS = load_jobs()`
LoadJobs(t) ==
    /\ refresh_at[t] = "load_jobs"
    /\ ALL_JOBS' = load_jobs(csv_file)
    /\ refresh_at' = [refresh_at EXCEPT ![t] = "compute_stats"]
    /\ UNCHANGED <<pc, fixed, LAST_GEOCODE_REQUEST, STATS, REFRESH_LOCK, returned,
                   previous, response, vector, files, crawl_vars, jobs, exc, pass_vars,
                   history>>

\* load_jobs() raises (open(CSV_PATH) fails, the file cannot be decoded):
\* `except Exception` and `finally`.
ReloadFails(t) ==
    /\ refresh_at[t] = "load_jobs"
    /\ returned' = [returned EXCEPT ![t] = Returned("False", 637)]
    /\ ALL_JOBS' = AfterFailedLoad(ALL_JOBS)
    /\ REFRESH_LOCK' = (REFRESH_LOCK /\ ~ReleasedOn("except"))
    /\ refresh_at' = [refresh_at EXCEPT ![t] = "idle"]
    /\ UNCHANGED <<pc, fixed, LAST_GEOCODE_REQUEST, STATS, previous,
                   response, vector, files, crawl_vars, jobs, exc, pass_vars, history>>

\* `STATS = compute_stats(ALL_JOBS)`
ComputeStats(t) ==
    /\ refresh_at[t] = "compute_stats"
    /\ STATS' = compute_stats(ALL_JOBS)
    /\ refresh_at' = [refresh_at EXCEPT ![t] = "clear"]
    /\ UNCHANGED <<pc, fixed, LAST_GEOCODE_REQUEST, ALL_JOBS, REFRESH_LOCK,
                   returned, previous, response, vector, files, crawl_vars, jobs, exc,
                   pass_vars, history>>

\* `LAST_REFRESH_TS = time.time()` and `VS_READY.clear()`: the time is
\* counted in refreshes.
ClearReady(t) ==
    /\ refresh_at[t] = "clear"
    /\ LAST_REFRESH_TS' = <<Refreshes + 1>>
    /\ VS_READY' = FALSE
    /\ refresh_at' = [refresh_at EXCEPT ![t] = "return"]
    /\ UNCHANGED <<pc, fixed, LAST_GEOCODE_REQUEST, ALL_JOBS, STATS, REFRESH_LOCK,
                   returned, previous, response, VECTOR_STORE_ID, setup_at, chat,
                   files, crawl_vars, jobs, exc, pass_vars, history>>

\* `VECTOR_STORE_ID = None`, the start of the rebuild thread, `return True`
\* and `finally`: the lock is released.
ReturnTrue(t) ==
    /\ refresh_at[t] = "return"
    /\ VECTOR_STORE_ID' = NULL
    /\ setup_at' = [setup_at EXCEPT ![Refreshes] = "running"]
    /\ returned' = [returned EXCEPT ![t] = Returned("True", 634)]
    /\ REFRESH_LOCK' = (REFRESH_LOCK /\ ~ReleasedOn("return"))
    /\ refresh_at' = [refresh_at EXCEPT ![t] = "idle"]
    /\ UNCHANGED <<pc, fixed, LAST_GEOCODE_REQUEST, ALL_JOBS, STATS, previous,
                   response, LAST_REFRESH_TS, VS_READY, chat, files, crawl_vars, jobs,
                   exc, pass_vars, history>>

\* The id of the vector store that setup thread k creates or reuses.
VsId(k) == "vs_" \o ToString(k)

\* setup_vector_store returns without a store: a request of lines 403-468
\* failed, or the indexing did.
SetupFails(k) ==
    /\ setup_at[k] = "running"
    /\ setup_at' = [setup_at EXCEPT ![k] = "done"]
    /\ UNCHANGED <<pc, fixed, LAST_GEOCODE_REQUEST, ALL_JOBS, STATS, REFRESH_LOCK,
                   refresh_at, returned, previous, response, LAST_REFRESH_TS,
                   VECTOR_STORE_ID, VS_READY, chat, files, crawl_vars, jobs, exc,
                   pass_vars, history>>

\* `VECTOR_STORE_ID = vs_id` (line 373 or line 470)
SetupAssigns(k) ==
    /\ setup_at[k] = "running"
    /\ VECTOR_STORE_ID' = VsId(k)
    /\ setup_at' = [setup_at EXCEPT ![k] = "assigned"]
    /\ UNCHANGED <<pc, fixed, LAST_GEOCODE_REQUEST, ALL_JOBS, STATS, REFRESH_LOCK,
                   refresh_at, returned, previous, response, LAST_REFRESH_TS,
                   VS_READY, chat, files, crawl_vars, jobs, exc, pass_vars, history>>

\* `VS_READY.set()` (line 374 or line 471), and the thread ends.
SetupSets(k) ==
    /\ setup_at[k] = "assigned"
    /\ VS_READY' = TRUE
    /\ setup_at' = [setup_at EXCEPT ![k] = "done"]
    /\ UNCHANGED <<pc, fixed, LAST_GEOCODE_REQUEST, ALL_JOBS, STATS, REFRESH_LOCK,
                   refresh_at, returned, previous, response, LAST_REFRESH_TS,
                   VECTOR_STORE_ID, chat, files, crawl_vars, jobs, exc, pass_vars,
                   history>>

\* chat_with_data: `VS_READY.wait(timeout=30)` returns True.
ChatWaits ==
    /\ chat.at = "idle"
    /\ VS_READY
    /\ chat' = [at |-> "payload", vector_store_ids |-> <<>>]
    /\ UNCHANGED <<pc, fixed, LAST_GEOCODE_REQUEST, ALL_JOBS, STATS, REFRESH_LOCK,
                   refresh_at, returned, previous, response, LAST_REFRESH_TS,
                   VECTOR_STORE_ID, VS_READY, setup_at, files, crawl_vars, jobs, exc,
                   pass_vars, history>>

\* chat_with_data: the payload, `"vector_store_ids": [VECTOR_STORE_ID]`.
ChatBuildsPayload ==
    /\ chat.at = "payload"
    /\ chat' = [at |-> "idle", vector_store_ids |-> <<VECTOR_STORE_ID>>]
    /\ UNCHANGED <<pc, fixed, LAST_GEOCODE_REQUEST, ALL_JOBS, STATS, REFRESH_LOCK,
                   refresh_at, returned, previous, response, LAST_REFRESH_TS,
                   VECTOR_STORE_ID, VS_READY, setup_at, files, crawl_vars, jobs, exc,
                   pass_vars, history>>

\* Handler.do_GET on /api/jobs without filters and on /api/stats.
do_GET(path) ==
    /\ response' = IF path = "/api/stats"
                   THEN [path |-> path, payload |-> STATS]
                   ELSE [path |-> path,
                         payload |-> [total |-> Len(ALL_JOBS), jobs |-> ALL_JOBS]]
    /\ UNCHANGED <<pc, fixed, LAST_GEOCODE_REQUEST, ALL_JOBS, STATS, REFRESH_LOCK,
                   refresh_at, returned, previous, vector, files, crawl_vars, jobs, exc,
                   pass_vars, history>>

ServerNext ==
    \/ \E t \in THREADS : CallRefresh(t)
    \/ \E t \in THREADS : ScrapeAndEnrich(t)
    \/ WriteJson
    \/ WriteCsv
    \/ \E t \in THREADS : MainReturns(t)
    \/ \E t \in THREADS : RefreshFails(t)
    \/ \E t \in THREADS : LoadJobs(t)
    \/ \E t \in THREADS : ReloadFails(t)
    \/ \E t \in THREADS : ComputeStats(t)
    \/ \E t \in THREADS : ClearReady(t)
    \/ \E t \in THREADS : ReturnTrue(t)
    \/ \E path \in {"/api/jobs", "/api/stats"} : do_GET(path)

\* The refreshes and the readers of the dataset; the setup_vector_store
\* threads take no step here.
ServerSpec == ServerInit /\ [][ServerNext]_vars

\* The refreshes of the refresh_loop thread, the one caller of
\* refresh_dataset in server.py, the setup_vector_store threads and
\* chat_with_data.
VectorNext ==
    \/ CallRefresh("refresh_loop")
    \/ ScrapeAndEnrich("refresh_loop")
    \/ WriteJson
    \/ WriteCsv
    \/ MainReturns("refresh_loop")
    \/ RefreshFails("refresh_loop")
    \/ LoadJobs("refresh_loop")
    \/ ReloadFails("refresh_loop")
    \/ ComputeStats("refresh_loop")
    \/ ClearReady("refresh_loop")
    \/ ReturnTrue("refresh_loop")
    \/ \E k \in SETUP_THREADS : SetupFails(k)
    \/ \E k \in SETUP_THREADS : SetupAssigns(k)
    \/ \E k \in SETUP_THREADS : SetupSets(k)
    \/ ChatWaits
    \/ ChatBuildsPayload

\* The server started on the files of a run that found one listing.
VectorInit == ServerInit /\ json_file.rows = <<DegradedRecord(BareEntry(JOB_2))>>

VectorSpec == VectorInit /\ [][VectorNext]_vars

\* ------------------------------------------ the extractors, call by call

\* The values a JSON-LD script can hold under the three keys of its address,
\* and what a listing page can show as the location of an entry.
LD_ADDRESSES ==
    [addressLocality : {NULL, "AUSTIN"},
     addressRegion : {NULL, "TX"},
     streetAddress : {NULL, "1 Court Rd", "Harrogate, TN"}]

LISTING_LOCATIONS == {NULL, "Austin, TX", "Remote"}

\* No run of main() and no server: one call of one function, on a
\* description of up to MaxLines lines, on a fetched detail page, or on a list
\* of up to MaxRecords records as main() holds them at line 934.  The detail
\* page has up to MaxAddresses addresses in its "Contact Details" block and
\* up to one in a mailto: link and in its text, or it is a page of
\* DETAIL_PAGES with some JSON-LD address and a description of up to
\* MaxParagraphs lines, listed with some location.
CallsInit ==
    /\ pc = "start"
    /\ OPENAI_API_KEY = ""
    /\ geocode_file = <<>>
    /\ fit_score_file = <<>>
    /\ json_file = NoFile
    /\ csv_file = NoCsvFile
    /\ written = {}
    /\ next_url = NULL
    /\ listings = <<>>
    /\ seen_urls = {}
    /\ all_jobs = <<>>
    /\ jobs = <<>>
    /\ exc = NoException
    /\ cache = <<>>
    /\ harrogate_coords = None
    /\ job_index = 0
    /\ pages_fetched = 0
    /\ fetch_log = NoFetch
    /\ detail_calls = [u \in URLS |-> 0]
    /\ geo_first = <<>>
    /\ geo_last = NoLookup
    /\ fit_last = NoScoring
    /\ LAST_GEOCODE_REQUEST = 0
    /\ cache_io = [path \in CACHE_FILES |-> NoIo]
    /\ NoServer
    /\ \/ \E d \in SeqsUpTo(LINES, MaxLines) :
             arg = [fn |-> "extract_sections_from_description", description |-> d]
       \/ \E block \in SeqsUpTo(ADDRESSES, MaxAddresses),
             mailto \in SeqsUpTo(ADDRESSES, 1), text \in SeqsUpTo(ADDRESSES, 1) :
             arg = [fn |-> "extract_job_details",
                    entry |-> FullEntry(JOB_1),
                    page |-> [RichPage EXCEPT
                                 !.sources = EmailSources(block, mailto, text)]]
       \/ \E base \in DETAIL_PAGES, address \in LD_ADDRESSES,
             description \in SeqsUpTo({"", "Teach lessons.", "Responsibilities:"},
                                      MaxParagraphs),
             location \in LISTING_LOCATIONS :
             arg = [fn |-> "extract_job_details",
                    entry |-> [FullEntry(JOB_1) EXCEPT !.listing_location = location],
                    page |-> [base EXCEPT !.ld_address = address,
                                          !.description = description]]
       \/ \E js \in SeqsUpTo(UNION {Enriched(job) : job \in CRAWLED_RECORDS}, MaxRecords) :
             arg = [fn |-> "write_csv", jobs |-> js]
    /\ result = [returned |-> FALSE]

Return(value) ==
    /\ ~result.returned
    /\ exc = NoException
    /\ result' = [returned |-> TRUE, value |-> value]
    /\ UNCHANGED <<pc, OPENAI_API_KEY, arg, LAST_GEOCODE_REQUEST, server, files,
                   crawl_vars, jobs, exc, pass_vars, history>>

\* The call ends in an exception that nothing in the function catches.
Throw(type) ==
    /\ ~result.returned
    /\ exc = NoException
    /\ exc' = [type |-> type, status |-> OK, where |-> arg.fn]
    /\ UNCHANGED <<pc, outside, files, crawl_vars, jobs, pass_vars, history>>

ExtractSections ==
    /\ arg.fn = "extract_sections_from_description"
    /\ Return(extract_sections_from_description(arg.description))

\* extract_job_details on a detail page that was fetched: the record.
BuildRecord ==
    /\ arg.fn = "extract_job_details"
    /\ IF DetailRaises(arg.page)
       THEN Throw("IndexError")
       ELSE Return(DetailRecord(arg.entry, arg.page))

\* write_csv(csv_path, jobs) on the list, and load_jobs() on the file it
\* left.
CallWriteCsv ==
    /\ arg.fn = "write_csv"
    /\ ~csv_file.exists
    /\ csv_file' = write_csv(arg.jobs)
    /\ written' = written \cup {"protennisjobs.csv"}
    /\ UNCHANGED <<pc, outside, geocode_file, fit_score_file, json_file,
                   crawl_vars, jobs, exc, pass_vars, history>>

CallLoadJobs ==
    /\ arg.fn = "write_csv"
    /\ csv_file.exists
    /\ Return(load_jobs(csv_file))

CallsNext ==
    \/ ExtractSections
    \/ BuildRecord
    \/ CallWriteCsv
    \/ CallLoadJobs

CallsSpec == CallsInit /\ [][CallsNext]_vars

\* ------------------------------------------- the crawl of one fixed site

\* scrape_all_listings on a site that does not change during the crawl: every
\* listing URL has one page, the entries and the next link it is served with
\* each time it is fetched.  The crawl is the one thread of its process, so
\* it takes its next step whenever it has one.
CrawlInit ==
    /\ pc = "start"
    /\ OPENAI_API_KEY = ""
    /\ geocode_file = <<>>
    /\ fit_score_file = <<>>
    /\ json_file = NoFile
    /\ csv_file = NoCsvFile
    /\ written = {}
    /\ next_url = NULL
    /\ listings = <<>>
    /\ seen_urls = {}
    /\ all_jobs = <<>>
    /\ jobs = <<>>
    /\ exc = NoException
    /\ cache = <<>>
    /\ harrogate_coords = None
    /\ job_index = 0
    /\ pages_fetched = 0
    /\ fetch_log = NoFetch
    /\ detail_calls = [u \in URLS |-> 0]
    /\ geo_first = <<>>
    /\ geo_last = NoLookup
    /\ fit_last = NoScoring
    /\ LAST_GEOCODE_REQUEST = 0
    /\ cache_io = [path \in CACHE_FILES |-> NoIo]
    /\ NoServer
    /\ result = [returned |-> FALSE]
    /\ \E site \in [PAGES -> LISTING_PAGES] :
          arg = [fn |-> "scrape_all_listings", site |-> site]

\* One turn of `while next_url` on the fixed site: the fetch succeeds and the
\* page is the one the site has at next_url.  pages_fetched counts up to one
\* more than the pages of the site.
FetchSitePage ==
    /\ pc = "crawl"
    /\ next_url # NULL
    /\ LET fetched == fetch_html(next_url, NULL, OK, OK)
           page == arg.site[next_url]
       IN  /\ fetch_log' = fetched
           /\ pages_fetched' = Min(pages_fetched + 1, Cardinality(PAGES) + 1)
           /\ listings' = page.listings
           /\ next_url' = page.next_url
           /\ pc' = "listing"
    /\ UNCHANGED <<outside, files, seen_urls, all_jobs, detail_calls, jobs, exc,
                   pass_vars, history>>

CrawlNext ==
    \/ StartMain
    \/ FetchSitePage
    \/ SkipSeenListing
    \/ ExtractJobDetails
    \/ EndOfPage
    \/ ReturnAllJobs

CrawlSpec == CrawlInit /\ [][CrawlNext]_vars /\ WF_vars(CrawlNext)

\* ---------------------------------------------------------------- claims

\* The latest fetch_html call was made by extract_job_details (for a detail
\* URL), or by extract_listings_from_page.
DetailFetch == fetch_log.requests # <<>> /\ fetch_log.requests[1].url \in URLS
ListingFetch == fetch_log.requests # <<>> /\ fetch_log.requests[1].url \in PAGES

\* C1: the list accumulated by scrape_all_listings, and the list it returns,
\* never holds two records with the same source_url, whatever the pages
\* repeat.
C1_UniqueSourceUrl == UniqueUrls(all_jobs) /\ UniqueUrls(jobs)

\* A second page lists a detail URL the crawl has already recorded.
C1_Witness ==
    /\ pc = "listing"
    /\ pages_fetched = 2
    /\ Len(all_jobs) = 2
    /\ listings # <<>>
    /\ Head(listings).url \in seen_urls

\* The listing entry of the detail URL the latest fetch was for.
FetchedEntry == CHOOSE e \in LISTING_ENTRIES : e.url = fetch_log.requests[1].url

\* The record appended for the latest detail fetch.
LastJob == all_jobs[Len(all_jobs)]

DetailOnlyFieldsNull(job) ==
    /\ \A f \in SECTION_FIELDS \cup CONTACT_FIELDS : job[f] = NULL
    /\ job.suitability_score = None
    /\ job.distance_to_harrogate_tn_miles = None

ListingLocation(job, text) ==
    /\ text = "Austin, TX" => job.location = [city |-> "Austin", state |-> "TX"]
    /\ text = NULL => job.location = [city |-> NULL, state |-> NULL]

DegradedFromListing(job, entry) ==
    /\ ListingLocation(job, entry.listing_location)
    /\ job.posted_date = entry.listing_date
    /\ job.job_summary = entry.summary
    /\ job.source_url = entry.url
    /\ DetailOnlyFieldsNull(job)

\* A detail fetch has just ended in 403.
Detail403 == DetailFetch /\ fetch_log.raised = "HTTPError" /\ fetch_log.status = FORBIDDEN

\* C2 as stated: after a detail fetch that ends in 403 nothing is raised and
\* the run is not aborted; until the crawl returns, the last record takes
\* job_title, location (parsed), posted_date and job_summary from the listing
\* entry, source_url is the detail URL and every detail-only field is null.
C2_AsStated ==
    Detail403 =>
        /\ pc # "aborted"
        /\ exc = NoException
        /\ pc \in {"listing", "crawl"} =>
              /\ all_jobs # <<>>
              /\ LastJob.job_title = FetchedEntry.listing_title
              /\ DegradedFromListing(LastJob, FetchedEntry)

\* C2, amended: the same, with job_title the listing title or, for an entry
\* without title text, the literal "Unknown".
C2_DegradedRecordOn403 ==
    Detail403 =>
        /\ pc # "aborted"
        /\ exc = NoException
        /\ pc \in {"listing", "crawl"} =>
              /\ all_jobs # <<>>
              /\ LastJob.job_title = IF FetchedEntry.listing_title = NULL THEN "Unknown"
                                     ELSE FetchedEntry.listing_title
              /\ DegradedFromListing(LastJob, FetchedEntry)

\* The 403 of the fully listed job, with entries still to process on the page.
C2_Witness ==
    /\ Detail403
    /\ pc = "listing"
    /\ fetch_log.requests[1].url = JOB_1
    /\ LastJob.job_title = "Head Pro"
    /\ listings # <<>>

\* C3: a detail fetch that ends in an HTTP error other than 403 raises out of
\* extract_job_details and scrape_all_listings: main is over, no record list
\* was returned and none of the four files has been written.
C3_Non403Propagates ==
    (DetailFetch /\ fetch_log.raised = "HTTPError" /\ fetch_log.status # FORBIDDEN) =>
        /\ pc = "aborted"
        /\ exc = [type |-> "HTTPError", status |-> fetch_log.status, where |-> "detail"]
        /\ jobs = <<>>
        /\ written = {}
        /\ ~json_file.exists
        /\ ~csv_file.exists

\* A 500 on the second detail page, a record already accumulated.
C3_Witness ==
    /\ pc = "aborted"
    /\ exc.where = "detail"
    /\ exc.status = SERVER_ERROR
    /\ Len(all_jobs) = 1

Failed(status) == status = NETERR \/ IsHttpError(status)

\* A first 403 is followed by exactly one more request, for the same URL with
\* the category referer, and the call fails exactly when that one fails.
RetriedOnce ==
    /\ Len(fetch_log.requests) = 2
    /\ fetch_log.requests[2].url = fetch_log.requests[1].url
    /\ fetch_log.requests[2].referer = CATEGORY_URL
    /\ (fetch_log.raised # "none") <=> Failed(fetch_log.requests[2].status)

\* C4 as stated: every fetch_html call, for a listing page or a detail page,
\* whose first request returns 403 retries once; no call issues more than two
\* requests.
C4_AsStated ==
    /\ Len(fetch_log.requests) <= 2
    /\ (fetch_log.requests # <<>> /\ fetch_log.requests[1].status = FORBIDDEN)
          => RetriedOnce

\* C4, amended: the retry is made by the listing-page fetches; a detail-page
\* fetch, whose first request already carries the category referer, issues one
\* request and fails when that one fails, a 403 included.
C4_RetryOnListingFetchOnly ==
    /\ Len(fetch_log.requests) <= 2
    /\ (ListingFetch /\ fetch_log.requests[1].status = FORBIDDEN) => RetriedOnce
    /\ (ListingFetch /\ fetch_log.requests[1].status # FORBIDDEN) =>
          /\ Len(fetch_log.requests) = 1
          /\ fetch_log.requests[1].referer = NULL
    /\ DetailFetch =>
          /\ Len(fetch_log.requests) = 1
          /\ fetch_log.requests[1].referer = CATEGORY_URL
          /\ (fetch_log.raised # "none") <=> Failed(fetch_log.requests[1].status)

\* A listing page answered 403, then 200 on the retry, and the crawl goes on.
C4_Witness ==
    /\ ListingFetch
    /\ Len(fetch_log.requests) = 2
    /\ fetch_log.requests[1].status = FORBIDDEN
    /\ fetch_log.requests[2].status = OK
    /\ pc = "listing"

Completed == pc = "done" => json_file.exists /\ csv_file.exists
                             /\ {"protennisjobs.json", "protennisjobs.csv"} \subseteq written

C6_DetailFetchedOnce == \A u \in URLS : detail_calls[u] <= 1

\* The page being processed lists again a URL whose detail page was fetched.
C6_Witness ==
    /\ pc = "listing"
    /\ listings # <<>>
    /\ detail_calls[Head(listings).url] = 1
    /\ detail_calls[JOB_1] + detail_calls[JOB_2] = 2

\* C7: a lookup of a key that geocode_city_state has looked up before issues
\* no request and returns what the first lookup returned.
C7_SecondLookupCached ==
    geo_last.again => geo_last.requests = 0 /\ geo_last.result = geo_last.first_result

\* C8: after a lookup that went to the network the cache of the pass holds the
\* key: the coordinate found, or null for an empty result and for a failed
\* request.
C8_LookupCached ==
    (pc = "geocode_jobs" /\ geo_last.requests = 1) =>
        /\ geo_last.key \in DOMAIN cache
        /\ geo_last.reply = "found" => cache[geo_last.key] = GeocoderFinds[geo_last.key]
        /\ geo_last.reply # "found" => cache[geo_last.key] = None

\* C9: a key for which a request has completed is terminal: no later lookup
\* of it goes to the network, and no scoring request is made for a URL the
\* persisted fit-score cache holds.
C9_KeyTerminal ==
    /\ geo_last.requested_before => geo_last.requests = 0
    /\ (pc = "score_jobs" /\ fit_last.requests = 1) =>
          jobs[fit_last.index].source_url \notin DOMAIN fit_score_file

OnDisk(path) == IF path = GEOCODE_CACHE_FILE THEN geocode_file ELSE fit_score_file

\* The lookups a pass makes before it saves: one per record, and the one of
\* the reference point in populate_distance_to_harrogate.
LookupsOfPass(path) ==
    IF path = GEOCODE_CACHE_FILE THEN Len(jobs) + 1 ELSE Len(jobs)

\* The pass over a cache file has returned to main().
PassReturned(path) ==
    IF path = GEOCODE_CACHE_FILE
    THEN pc \in {"score", "score_jobs", "write_json"}
         \/ (pc = "aborted" /\ exc.where = "score")
    ELSE pc = "write_json" /\ HasApiKey(OPENAI_API_KEY)

\* C11: in an enrichment pass the cache file is read once, before the first
\* lookup, and written once, after the last record; a pass that has returned
\* has written it; until the write, and so after an interruption, the file on
\* disk is what it was before the pass.
C11_ReadOnceWrittenOnceAtEnd ==
    \A path \in CACHE_FILES :
        LET io == cache_io[path]
        IN  /\ io.reads <= 1
            /\ io.writes <= 1
            /\ io.lookups > 0 => io.reads = 1
            /\ io.writes = 1 => io.reads = 1 /\ io.lookups = LookupsOfPass(path)
            /\ PassReturned(path) => io.writes = 1
            /\ io.reads = 1 /\ io.writes = 0 => OnDisk(path) = io.before

\* The distance pass has written its file once; the scoring pass was cut after
\* a request that gave a score, and its file is still the one it read.
C11_Witness ==
    /\ pc = "aborted"
    /\ exc.where = "score"
    /\ cache_io[GEOCODE_CACHE_FILE].writes = 1
    /\ cache_io[GEOCODE_CACHE_FILE].before # geocode_file
    /\ cache_io[FIT_SCORE_CACHE_FILE].reads = 1
    /\ cache_io[FIT_SCORE_CACHE_FILE].writes = 0
    /\ fit_last.requests = 1
    /\ ~fit_last.failed
    /\ fit_score_file = cache_io[FIT_SCORE_CACHE_FILE].before

\* The entries of dict `old` are entries of dict `new`.
Extends(new, old) ==
    \A k \in DOMAIN old : k \in DOMAIN new /\ new[k] = old[k]

\* The cache file whose pass is running, NULL between the passes.
RunningPass ==
    IF pc \in {"geocode_harrogate", "geocode_jobs"} THEN GEOCODE_CACHE_FILE
    ELSE IF pc = "score_jobs" THEN FIT_SCORE_CACHE_FILE
    ELSE NULL

\* C12: every entry a cache file held before a pass is in the dict of the
\* running pass and in the file after the pass, under the same key with the
\* same value: a pass only adds keys.
C12_EntriesKept ==
    \A path \in CACHE_FILES :
        cache_io[path].reads = 1 =>
            /\ Extends(OnDisk(path), cache_io[path].before)
            /\ RunningPass = path => Extends(cache, cache_io[path].before)

\* A scoring pass that found a null entry in its file has looked it up and
\* has written the file with a key more.
C12_Witness ==
    LET io == cache_io[FIT_SCORE_CACHE_FILE]
    IN  /\ io.writes = 1
        /\ \E k \in DOMAIN io.before :
               /\ io.before[k] = None
               /\ \E i \in DOMAIN jobs : jobs[i].source_url = k
        /\ DOMAIN fit_score_file # DOMAIN io.before

\* ------------------------------------------------------- the refresh lock

\* The threads that are inside refresh_dataset, past the lock.
Refreshing == {t \in THREADS : refresh_at[t] # "idle"}

\* The call that thread t makes in this step comes back from line 620.
RefusedStep(t) ==
    /\ refresh_at[t] = "idle"
    /\ returned'[t] # returned[t]
    /\ Refreshing # {}

\* C13: at most one thread is inside refresh_dataset past the lock, and it
\* holds the lock; a call made while another refresh is running returns
\* False, starts no run of the scraper and leaves ALL_JOBS, STATS and the
\* files as they are.
C13_OneRefreshAtATime ==
    /\ [](Cardinality(Refreshing) <= 1 /\ (Refreshing # {} <=> REFRESH_LOCK))
    /\ [][\A t \in THREADS :
             RefusedStep(t) =>
                 /\ returned'[t] = Returned("False", 620)
                 /\ refresh_at'[t] = "idle"
                 /\ UNCHANGED <<pc, ALL_JOBS, STATS, files, jobs, REFRESH_LOCK>>]_vars

\* A call has come back from line 620 while the other thread, past main(),
\* is about to load the new file.
C13_Witness ==
    \E t, u \in THREADS :
        /\ t # u
        /\ returned[t] = Returned("False", 620)
        /\ refresh_at[u] = "load_jobs"
        /\ REFRESH_LOCK

\* ------------------------------------------------------- the snapshots

\* The dataset that the running refresh builds from the list `jobs` of its
\* scraper.main(): the two files, and what lines 626-627 load from them.
NewDataset ==
    [ALL_JOBS |-> load_jobs(write_csv(jobs)),
     STATS |-> compute_stats(load_jobs(write_csv(jobs))),
     json_file |-> [exists |-> TRUE, rows |-> jobs],
     csv_file |-> write_csv(jobs)]

\* C14: while a refresh runs, what a reader finds in ALL_JOBS, STATS and the
\* two output files is the whole dataset of before the refresh or the whole
\* new one, never a mixture of the two.
C14_PreviousOrNewSnapshot ==
    Refreshing # {} => Dataset \in {previous, NewDataset}

\* ------------------------------------------------------- the throttle

\* C15: a geocoding request is issued GEOCODE_MIN_INTERVAL or more after the
\* request before it, in this run of main() or in an earlier one of the
\* process.
C15_RequestsSpaced ==
    /\ geo_last.requests > 0 =>
           /\ geo_last.at = LAST_GEOCODE_REQUEST
           /\ geo_last.previous > 0 =>
                  geo_last.at - geo_last.previous >= GEOCODE_MIN_INTERVAL
    /\ LAST_GEOCODE_REQUEST > 0 => LAST_GEOCODE_REQUEST >= GEOCODE_MIN_INTERVAL

\* The first lookup of a later run has asked the service for Harrogate, after
\* the requests of an earlier run.
C15_Witness ==
    /\ pc = "geocode_jobs"
    /\ job_index = 1
    /\ geo_last.key = HARROGATE_KEY
    /\ geo_last.requests = 1
    /\ geo_last.previous > 0
    /\ geo_last.at = geo_last.previous + GEOCODE_MIN_INTERVAL

\* ------------------------------------------------------- the fit scores

\* null, or an integer from 0 to 10.
ValidScore(v) == v = None \/ (Len(v) = 1 /\ v[1] \in 0..10)

\* C16: in runs that start without a fit-score cache file, the score of
\* every record, every value of the dict of the scoring pass and every value
\* of the cache file is null or an integer from 0 to 10.
C16_ScoresInRange ==
    /\ \A i \in DOMAIN jobs : ValidScore(jobs[i].suitability_score)
    /\ \A k \in DOMAIN fit_score_file : ValidScore(fit_score_file[k])
    /\ pc = "score_jobs" => \A k \in DOMAIN cache : ValidScore(cache[k])

\* A reply of 12.5 has been stored as 10 in the file by an earlier run, and a
\* reply of -3.5 has been assigned as 0 in this one.
C16_Witness ==
    /\ \E k \in DOMAIN fit_score_file : fit_score_file[k] = <<10>>
    /\ \E i \in DOMAIN jobs : jobs[i].suitability_score = <<0>>
    /\ fit_last.requests = 1

\* ------------------------------------------------- the section classifier

FIVE_LINES ==
    <<"Responsibilities:", "Teach lessons.", "Run clinics.", "Requirements:",
      "USPTA certified.">>

\* extract_sections_from_description has returned for the description d.
SectionsOf(d) ==
    /\ arg.fn = "extract_sections_from_description"
    /\ arg.description = d
    /\ result.returned

\* Line i of d is a heading: not blank, holding a keyword of some section,
\* and ending with a colon or of at most six words.
HeadingAt(d, i) ==
    /\ d[i] # ""
    /\ TEXTS[d[i]].keywords # {}
    /\ (TEXTS[d[i]].colon \/ TEXTS[d[i]].words <= 6)

\* The texts of the lines between the heading at i and the next heading,
\* blank lines left out.
BodyOf(d, i) ==
    LET later == {j \in DOMAIN d : j > i /\ HeadingAt(d, j)}
        stop == IF later = {} THEN Len(d) + 1
                ELSE CHOOSE j \in later : \A k \in later : j <= k
    IN  SelectSeq(SubSeq(d, i + 1, stop - 1), LAMBDA line : line # "")

\* The headings of d that are followed by at least one body line.
HeadingsWithBody(d) == {i \in DOMAIN d : HeadingAt(d, i) /\ BodyOf(d, i) # <<>>}

\* C17 as stated: for the five-line input the result has key_responsibilities
\* = 'Teach lessons. Run clinics.' and required_qualifications = 'USPTA
\* certified.'.
C17_AsStated ==
    SectionsOf(FIVE_LINES) =>
        /\ "key_responsibilities" \in DOMAIN result.value
        /\ result.value["key_responsibilities"] = "Teach lessons. Run clinics."
        /\ "required_qualifications" \in DOMAIN result.value
        /\ result.value["required_qualifications"] = "USPTA certified."

\* C17: when some heading of the description has a body, the result holds
\* exactly the sections of the headings that have one, and each section is the
\* body lines that follow its last such heading up to the next heading, joined
\* by a space; a heading is a line with a section keyword that ends with a
\* colon or has at most six words.  For the five-line input the result is
\* key_responsibilities = 'Teach lessons. Run clinics.' alone: 'USPTA
\* certified.' is itself a heading, so required_qualifications has no body.
C17_BodyLinesFollowHeading ==
    /\ (arg.fn = "extract_sections_from_description" /\ result.returned) =>
          LET d == arg.description IN
          HeadingsWithBody(d) # {} =>
              LET with == HeadingsWithBody(d)
                  last(key) == CHOOSE i \in with :
                                  /\ match_section_key(d[i]) = key
                                  /\ \A j \in with :
                                        match_section_key(d[j]) = key => j <= i
              IN  /\ DOMAIN result.value = {match_section_key(d[i]) : i \in with}
                  /\ \A key \in DOMAIN result.value :
                        result.value[key] = Join(" ", BodyOf(d, last(key)))
    /\ SectionsOf(FIVE_LINES) =>
          /\ DOMAIN result.value = {"key_responsibilities"}
          /\ result.value["key_responsibilities"] = "Teach lessons. Run clinics."

\* The five-line input has been classified: one section, no
\* required_qualifications.
C17_Witness ==
    /\ SectionsOf(FIVE_LINES)
    /\ "key_responsibilities" \in DOMAIN result.value
    /\ "required_qualifications" \notin DOMAIN result.value

\* ------------------------------------------------------- the CSV round trip

\* The Optional fields of JobListing that hold text, and those that hold a
\* number; load_jobs gives a number field an int, a float or None, never a str.
TEXT_FIELDS == {"posted_date", "job_summary"} \cup SECTION_FIELDS \cup CONTACT_FIELDS
NUMBER_FIELDS == {"suitability_score", "distance_to_harrogate_tn_miles"}

\* Every Optional field of the record, and both parts of its location, is
\* None.
AllNull(job) ==
    /\ \A f \in TEXT_FIELDS : job[f] = NULL
    /\ \A f \in NUMBER_FIELDS : job[f] = None
    /\ job.location.city = NULL
    /\ job.location.state = NULL

\* write_csv has written the list and load_jobs has read the file back.
RoundTripDone == arg.fn = "write_csv" /\ csv_file.exists /\ result.returned

\* C18 as stated, for the optional fields that hold text: each of them is
\* the empty string in the record loaded from the row of an all-null record.
C18_AsStated ==
    RoundTripDone =>
        \A i \in DOMAIN arg.jobs :
            AllNull(arg.jobs[i]) => \A f \in TEXT_FIELDS : result.value[i][f] = ""

\* C18: write_csv writes an empty cell, never "None", for every null field;
\* from the row of an all-null record load_jobs gives "" for posted_date,
\* job_summary, the eight sections, contact_emails, contact_city,
\* contact_address and contact_url, None for suitability_score and the
\* distance, "Unknown org" for contact_name and "Unknown City" / "Unknown" for
\* the location; no text of the loaded record is "None".
C18_RoundTripOfNulls ==
    RoundTripDone =>
        \A i \in DOMAIN arg.jobs :
            /\ \A name \in Range(fieldnames) : csv_file.rows[i][name] # "None"
            /\ \A f \in TEXT_FIELDS \cup {"job_title", "source_url"} :
                  result.value[i][f] # "None"
            /\ AllNull(arg.jobs[i]) =>
                  /\ \A name \in Range(fieldnames) \ {"job_title", "source_url"} :
                        csv_file.rows[i][name] = ""
                  /\ \A f \in TEXT_FIELDS \ {"contact_name"} : result.value[i][f] = ""
                  /\ result.value[i].contact_name = "Unknown org"
                  /\ result.value[i].location = [city |-> "Unknown City", state |-> "Unknown"]
                  /\ \A f \in NUMBER_FIELDS : result.value[i][f] = None

\* An all-null record has gone through write_csv and load_jobs.
C18_Witness ==
    /\ RoundTripDone
    /\ \E i \in DOMAIN arg.jobs :
          /\ AllNull(arg.jobs[i])
          /\ csv_file.rows[i]["contact_name"] = ""
          /\ result.value[i].contact_name = "Unknown org"

\* write_csv has written the list of the call.
CsvWritten == arg.fn = "write_csv" /\ csv_file.exists

\* C19: whatever the list, the file write_csv leaves starts with the same 21
\* column names in the same order, 'Distance to Harrogate, TN' among them and
\* the location as location_city and location_state; it has one row per
\* record, in the order of the list, with one cell per column; and every
\* column load_jobs reads is in the header.
C19_HeaderAndRows ==
    CsvWritten =>
        /\ csv_file.header =
              <<"job_title", "location_city", "location_state", "posted_date",
                "Distance to Harrogate, TN", "job_summary", "position_overview",
                "suitability_score", "key_responsibilities",
                "required_qualifications", "preferred_certifications",
                "compensation_benefits", "work_schedule", "physical_requirements",
                "how_to_apply", "contact_emails", "contact_name", "contact_city",
                "contact_address", "contact_url", "source_url">>
        /\ Len(csv_file.header) = 21
        /\ Cardinality(Range(csv_file.header)) = 21
        /\ Len(csv_file.rows) = Len(arg.jobs)
        /\ \A i \in DOMAIN arg.jobs :
              /\ DOMAIN csv_file.rows[i] = Range(csv_file.header)
              /\ csv_file.rows[i]["source_url"] = arg.jobs[i].source_url
              /\ csv_file.rows[i]["job_title"] = arg.jobs[i].job_title
              /\ csv_file.rows[i]["location_city"] =
                     IF arg.jobs[i].location.city = NULL THEN ""
                     ELSE arg.jobs[i].location.city
              /\ (csv_file.rows[i]["Distance to Harrogate, TN"] = "")
                     <=> (arg.jobs[i].distance_to_harrogate_tn_miles = None)
        /\ COLUMNS_READ \subseteq Range(csv_file.header)

\* A list of two different records has been written.
C19_Witness ==
    /\ CsvWritten
    /\ Len(arg.jobs) = 2
    /\ arg.jobs[1].source_url # arg.jobs[2].source_url
    /\ Len(csv_file.rows) = 2
    /\ csv_file.rows[2]["Distance to Harrogate, TN"] # ""

\* ------------------------------------------------------- the e-mail addresses

\* extract_job_details has built the record of a fetched detail page.
RecordBuilt == arg.fn = "extract_job_details" /\ result.returned

\* The distinct lower-cased addresses of the three sources.
AddressesOf(sources) ==
    {Lower(e) : e \in Range(sources.block) \cup Range(sources.mailto)
                                           \cup Range(sources.text)}

\* C20: contact_emails of the record is the merge of the three sources, every
\* distinct address once, lower-cased, sorted and comma-joined, and null only
\* when no source holds an address.
C20_MergeOfThreeSources ==
    RecordBuilt =>
        LET all == AddressesOf(arg.page.sources)
            merged == SelectSeq(SORTED_ADDRESSES, LAMBDA a : a \in all)
        IN  result.value.contact_emails =
                IF all = {} THEN NULL ELSE Join(", ", merged)

\* ------------------------------------------------------- the detail page

\* C21: the location of the record follows the order structured data, street
\* address, listing text: an addressLocality or addressRegion of the JSON-LD
\* data is the city or the state of the record, without them the record has
\* what parse_location makes of the streetAddress, and only without all three
\* what it makes of the listing's location text.
C21_LocationFallbackOrder ==
    RecordBuilt =>
        LET address == arg.page.ld_address
            location == result.value.location
        IN  /\ address.addressLocality # NULL => location.city = address.addressLocality
            /\ address.addressRegion # NULL => location.state = address.addressRegion
            /\ (address.addressLocality = NULL /\ address.addressRegion = NULL
                   /\ address.streetAddress # NULL)
                  => location = parse_location(address.streetAddress)
            /\ address = NoAddress => location = parse_location(arg.entry.listing_location)

\* C22: extract_job_details raises nothing on a fetched detail page, whatever
\* the page holds, and the record it returns has None for what the page does
\* not give.
C22_NoExceptionOnFetchedPage ==
    arg.fn = "extract_job_details" =>
        /\ exc = NoException
        /\ RecordBuilt =>
              /\ arg.page.description = <<>> =>
                    \A f \in SECTION_FIELDS : result.value[f] = NULL
              /\ \A f \in CONTACT_FIELDS \ {"contact_emails"} :
                    result.value[f] = arg.page.contact_details[f]
              /\ AddressesOf(arg.page.sources) = {} => result.value.contact_emails = NULL
              /\ result.value.suitability_score = None
              /\ result.value.distance_to_harrogate_tn_miles = None

\* ------------------------------------------------------- the two passes

\* extract_sections_from_description has returned.
SectionsReturned == arg.fn = "extract_sections_from_description" /\ result.returned

\* The keys whose keywords line i of d contains, and the first of them in the
\* order of the keyword table.
KeysAt(d, i) ==
    {k \in DOMAIN SECTION_KEYS :
        SECTION_KEYWORDS[SECTION_KEYS[k]] \cap TEXTS[d[i]].keywords # {}}

FirstKeyAt(d, i) == SECTION_KEYS[CHOOSE k \in KeysAt(d, i) : \A j \in KeysAt(d, i) : k <= j]

\* What the keyword pass gives: for each key some line mentions, the first
\* line that does.
KeywordPass(d) ==
    LET lines(k) == {i \in DOMAIN d : k \in KeysAt(d, i)}
    IN  [key \in {SECTION_KEYS[k] : k \in {j \in DOMAIN SECTION_KEYS : lines(j) # {}}} |->
            LET k == CHOOSE j \in DOMAIN SECTION_KEYS : SECTION_KEYS[j] = key
            IN  d[CHOOSE i \in lines(k) : \A j \in lines(k) : i <= j]]

\* C23: the keyword pass runs exactly when the main pass detected no heading:
\* with a heading in the description the result holds only the sections of the
\* headings that have a body, and without one each section is the first line
\* that contains one of its keywords.
C23_KeywordPassOnlyWithoutHeading ==
    SectionsReturned =>
        LET d == arg.description
        IN  IF \E i \in DOMAIN d : HeadingAt(d, i)
            THEN DOMAIN result.value = {FirstKeyAt(d, i) : i \in HeadingsWithBody(d)}
            ELSE result.value = KeywordPass(d)

\* C24 as stated: a heading opens the section of the first key it matches
\* only, and the keyword pass puts no line under two keys.
C24_AsStated ==
    SectionsReturned =>
        LET d == arg.description
        IN  IF HeadingsWithBody(d) # {}
            THEN DOMAIN result.value = {FirstKeyAt(d, i) : i \in HeadingsWithBody(d)}
            ELSE \A k1, k2 \in DOMAIN result.value :
                    k1 # k2 => result.value[k1] # result.value[k2]

\* C24: in the heading pass a heading that matches the keywords of several
\* keys opens the section of the first of them only; when that pass yields no
\* section, the keyword pass gives every key the first line that holds one of
\* its keywords, so a line that matches several keys is the content of each
\* key it is the first line for.
C24_FirstKeyInHeadingPass ==
    SectionsReturned =>
        LET d == arg.description
        IN  IF HeadingsWithBody(d) # {}
            THEN DOMAIN result.value = {FirstKeyAt(d, i) : i \in HeadingsWithBody(d)}
            ELSE /\ result.value = KeywordPass(d)
                 /\ \A i \in DOMAIN d : \A k \in KeysAt(d, i) :
                       (\A j \in 1..(i - 1) : k \notin KeysAt(d, j))
                           => result.value[SECTION_KEYS[k]] = d[i]

\* A heading that matches two keys has been given a body: the section is
\* that of the first key.
C24_Witness ==
    /\ SectionsReturned
    /\ Len(arg.description) = 2
    /\ arg.description[1] = "Requirements and benefits:"
    /\ Cardinality(KeysAt(arg.description, 1)) = 2
    /\ DOMAIN result.value = {"required_qualifications"}

\* ------------------------------------------------------- the phases of a run

\* What a step of the run does: a fetch of a listing or a detail page, a
\* lookup of geocode_city_state or the write of its cache file, a lookup of
\* score_jobs_with_ai, the write of an output file.
FetchStep == pages_fetched' > pages_fetched \/ detail_calls' # detail_calls
GeocodeStep ==
    \/ cache_io'[GEOCODE_CACHE_FILE].lookups # cache_io[GEOCODE_CACHE_FILE].lookups
    \/ cache_io'[GEOCODE_CACHE_FILE].writes # cache_io[GEOCODE_CACHE_FILE].writes
ScoreStep ==
    cache_io'[FIT_SCORE_CACHE_FILE].lookups # cache_io[FIT_SCORE_CACHE_FILE].lookups
JsonStep == json_file' # json_file
CsvStep == csv_file' # csv_file

\* score_jobs_with_ai has returned: without a key at once, with one after the
\* write of its cache file.
ScoringOver ==
    \/ ~HasApiKey(OPENAI_API_KEY) /\ pc \in {"write_json", "write_csv", "done"}
    \/ cache_io[FIT_SCORE_CACHE_FILE].writes = 1

\* C25: every fetch of a page precedes the first geocoding lookup, every
\* geocoding lookup and the write of the geocode cache precede the first
\* scoring lookup, the output files are written after scoring is over, the
\* JSON file before the CSV file, and no step of the run issues requests of
\* two kinds.
C25_PhasesOrdered ==
    [][/\ FetchStep =>
             /\ cache_io[GEOCODE_CACHE_FILE] = NoIo
             /\ cache_io[FIT_SCORE_CACHE_FILE] = NoIo
             /\ ~GeocodeStep /\ ~ScoreStep /\ ~JsonStep /\ ~CsvStep
       /\ GeocodeStep =>
             /\ cache_io[FIT_SCORE_CACHE_FILE] = NoIo
             /\ fit_last = NoScoring
             /\ ~ScoreStep /\ ~JsonStep /\ ~CsvStep
       /\ ScoreStep =>
             /\ cache_io[GEOCODE_CACHE_FILE].writes = 1
             /\ ~json_file.exists /\ ~csv_file.exists
             /\ ~JsonStep /\ ~CsvStep
       /\ JsonStep => ScoringOver /\ ~csv_file.exists /\ ~CsvStep
       /\ CsvStep => ScoringOver /\ json_file.exists]_vars

\* A run has fetched pages, geocoded, scored over the network and written
\* both files.
C25_Witness ==
    /\ pc = "done"
    /\ Len(jobs) = 2
    /\ cache_io[GEOCODE_CACHE_FILE].lookups >= 2
    /\ cache_io[FIT_SCORE_CACHE_FILE].lookups = 2
    /\ fit_last.requests >= 1
    /\ json_file.exists /\ csv_file.exists

\* ------------------------------------------------- the end of the crawl

\* scrape_all_listings has returned its list, or an exception has left it.
CrawlOver == pc \notin {"start", "crawl", "listing"}

\* C26: on a fixed finite site whose listing fetches succeed, pagination
\* loops included, the crawl eventually returns.
C26_CrawlTerminates == <>CrawlOver

\* ------------------------------------------------- scoring without a key

\* C29: without a key (unset or blank) score_jobs_with_ai makes no request,
\* leaves every record's suitability_score as the crawl built it (null), a
\* cached score for its URL notwithstanding, and neither reads nor writes the
\* fit-score cache file.
C29_NoKeyNoScoring ==
    OPENAI_API_KEY \in {"", BLANK} =>
        /\ fit_last = NoScoring
        /\ cache_io[FIT_SCORE_CACHE_FILE] = NoIo
        /\ FIT_SCORE_CACHE_FILE \notin written
        /\ \A i \in DOMAIN jobs : jobs[i].suitability_score = None

\* A run with a blank key is past score_jobs_with_ai, one of its records
\* having a score in the cache file.
C29_Witness ==
    /\ OPENAI_API_KEY = BLANK
    /\ pc = "write_json"
    /\ \E i \in DOMAIN jobs :
          /\ jobs[i].source_url \in DOMAIN fit_score_file
          /\ fit_score_file[jobs[i].source_url] = <<7>>
          /\ jobs[i].suitability_score = None

\* ------------------------------------------------------ the vector store

\* C27: whenever VS_READY is set VECTOR_STORE_ID holds an id, and no payload
\* of chat_with_data has a null among its vector_store_ids.
C27_ReadyImpliesStore ==
    /\ VS_READY => VECTOR_STORE_ID # NULL
    /\ \A i \in DOMAIN chat.vector_store_ids : chat.vector_store_ids[i] # NULL

\* ------------------------------------------------- a refresh that fails

\* A step of the call of refresh_dataset on thread t that is not past the
\* reload: the lock is taken, scraper.main() runs, the call returns False.
BeforeReloadStep(t) ==
    \/ refresh_at[t] = "idle" /\ refresh_at'[t] = "main"
    \/ /\ refresh_at[t] \in {"main", "load_jobs"}
       /\ refresh_at'[t] \in {"main", "load_jobs", "idle"}

\* C28: a call of refresh_dataset whose scraper run or reload raises returns
\* False from line 637, and from the lock to the return none of its steps
\* changes ALL_JOBS, STATS or LAST_REFRESH_TS or starts a setup_vector_store
\* thread; VECTOR_STORE_ID and VS_READY change in the steps of the setup
\* threads already running only; at the return ALL_JOBS and STATS are those
\* of before the call.
C28_FailedRefreshChangesNothing ==
    [][\A t \in THREADS :
          BeforeReloadStep(t) =>
              /\ UNCHANGED <<ALL_JOBS, STATS, LAST_REFRESH_TS>>
              /\ \A k \in SETUP_THREADS : setup_at[k] = "idle" => setup_at'[k] = "idle"
              /\ setup_at' = setup_at => UNCHANGED <<VECTOR_STORE_ID, VS_READY>>
              /\ refresh_at'[t] = "idle" =>
                     /\ returned'[t] = Returned("False", 637)
                     /\ ALL_JOBS' = previous.ALL_JOBS
                     /\ STATS' = previous.STATS]_vars

\* A refresh has failed at the reload, on new files, while the store of the
\* first setup thread was ready: the jobs served are the old ones.
C28_Witness ==
    /\ Refreshing = {}
    /\ returned["refresh_loop"] = Returned("False", 637)
    /\ json_file # previous.json_file
    /\ ALL_JOBS = previous.ALL_JOBS
    /\ ALL_JOBS # <<>>
    /\ LAST_REFRESH_TS = None
    /\ VS_READY /\ VECTOR_STORE_ID = VsId(0)

\* ------------------------------------------------ the release of the lock

\* The call of refresh_dataset on thread t ends in this step, past the lock.
ExitStep(t) == refresh_at[t] # "idle" /\ refresh_at'[t] = "idle"

\* The call that thread t makes in this step finds no refresh in progress.
FreeCallStep(t) ==
    /\ Refreshing = {}
    /\ refresh_at[t] = "idle"
    /\ returned'[t] # returned[t] \/ refresh_at'[t] # refresh_at[t]

\* C30: every exit of refresh_dataset past the lock releases it, the lock is
\* not held while no refresh is executing, and a call made while no refresh
\* is in progress takes the lock and stands before scraper.main().
C30_LockReleasedOnEveryExit ==
    /\ [](Refreshing = {} => ~REFRESH_LOCK /\ pc = "start")
    /\ [][\A t \in THREADS :
             /\ ExitStep(t) => ~REFRESH_LOCK'
             /\ FreeCallStep(t) =>
                    /\ REFRESH_LOCK'
                    /\ refresh_at'[t] = "main"
                    /\ pc' = "start"]_vars

\* After a refresh that failed at the reload, the other thread has called
\* refresh_dataset and stands before scraper.main() with the lock.
C30_Witness ==
    \E t, u \in THREADS :
        /\ t # u
        /\ returned[t] = Returned("False", 637)
        /\ refresh_at[t] = "idle"
        /\ json_file.rows # load_jobs(csv_file) /\ ALL_JOBS # load_jobs(csv_file)
        /\ refresh_at[u] = "main"
        /\ pc = "start"
        /\ REFRESH_LOCK

====
